---- MODULE Spec2Model ----
(***************************************************************************)
(* A model of wachturm: the daily update-risk pipeline of cmd/watchtower   *)
(* (main), the apt package manager (src/unnamed/part_002), the risk        *)
(* assessor (pkg/riskassessor/openai.go) and the snapshot store            *)
(* (internal/storage/storage.go).                                          *)
(*                                                                         *)
(* Go strings are TLA+ strings, one character for each byte: a character   *)
(* of code c < 256 is the byte c, so that "ÿ" is the byte 0xFF, which *)
(* occurs in no UTF-8 text.  The operators of package strings that the     *)
(* code uses are defined below, character by character.  A Go pointer that *)
(* may be nil and is never written through after construction is a         *)
(* sequence of length 0 (nil) or 1; the *UpgradeInfo pointers, which are   *)
(* written through, are addresses into the variable upgradeHeap, 0 = nil.  *)
(***************************************************************************)
EXTENDS Integers, Sequences, FiniteSets, TLC

(***************************************************************************)
(* Bounds of the model.                                                    *)
(***************************************************************************)
MaxRuns == 2
MaxDays == 2
MaxPackages == 3
MaxResults == 3
MaxLines == 3

(***************************************************************************)
(* Package strings.                                                        *)
(***************************************************************************)
Char(s, i) == SubSeq(s, i, i)

HasPrefix(s, p) == Len(p) <= Len(s) /\ SubSeq(s, 1, Len(p)) = p

Contains(s, sub) ==
    \/ Len(sub) = 0
    \/ \E i \in 1..(Len(s) - Len(sub) + 1) : SubSeq(s, i, i + Len(sub) - 1) = sub

\* strings.Index: the first position of sub in s (1-based), 0 when absent.
Index(s, sub) ==
    IF Len(sub) = 0 THEN 1
    ELSE IF ~Contains(s, sub) THEN 0
    ELSE CHOOSE i \in 1..(Len(s) - Len(sub) + 1) :
            /\ SubSeq(s, i, i + Len(sub) - 1) = sub
            /\ \A j \in 1..(i - 1) : SubSeq(s, j, j + Len(sub) - 1) # sub

Whitespace == {" ", "\t", "\n", "\r"}

\* the first position k >= from at which (Char(s, k) \in chars) = member,
\* Len(s) + 1 when there is none
FirstFrom(s, from, chars, member) ==
    IF \E k \in from..Len(s) : (Char(s, k) \in chars) = member
    THEN CHOOSE k \in from..Len(s) :
            /\ (Char(s, k) \in chars) = member
            /\ \A j \in from..(k - 1) : (Char(s, j) \in chars) # member
    ELSE Len(s) + 1

\* the last position k with Char(s, k) \notin chars, 0 when there is none
LastOutside(s, chars) ==
    IF \E k \in 1..Len(s) : Char(s, k) \notin chars
    THEN CHOOSE k \in 1..Len(s) :
            /\ Char(s, k) \notin chars
            /\ \A j \in (k + 1)..Len(s) : Char(s, j) \in chars
    ELSE 0

RECURSIVE FieldsFrom(_, _)
FieldsFrom(s, from) ==
    LET start == FirstFrom(s, from, Whitespace, FALSE)
        stop == FirstFrom(s, start, Whitespace, TRUE)
    IN  IF start > Len(s) THEN <<>>
        ELSE <<SubSeq(s, start, stop - 1)>> \o FieldsFrom(s, stop)

\* strings.Fields
Fields(s) == FieldsFrom(s, 1)

RECURSIVE Split(_, _)
\* strings.Split with a non-empty separator
Split(s, sep) ==
    LET i == Index(s, sep)
    IN  IF i = 0 THEN <<s>>
        ELSE <<SubSeq(s, 1, i - 1)>> \o Split(SubSeq(s, i + Len(sep), Len(s)), sep)

\* strings.SplitN(s, sep, 2)
SplitN2(s, sep) ==
    LET i == Index(s, sep)
    IN  IF i = 0 THEN <<s>>
        ELSE <<SubSeq(s, 1, i - 1), SubSeq(s, i + Len(sep), Len(s))>>

\* strings.Trim(s, cutset), the cutset given as a set of characters
Trim(s, cutset) == SubSeq(s, FirstFrom(s, 1, cutset, FALSE), LastOutside(s, cutset))

\* strings.TrimSpace
TrimSpace(s) == Trim(s, Whitespace)

\* strings.TrimPrefix
TrimPrefix(s, p) == IF HasPrefix(s, p) THEN SubSeq(s, Len(p) + 1, Len(s)) ELSE s

RECURSIVE Join(_, _)
\* strings.Join
Join(elems, sep) ==
    IF Len(elems) = 0 THEN ""
    ELSE IF Len(elems) = 1 THEN elems[1]
    ELSE elems[1] \o sep \o Join(Tail(elems), sep)

UpperCase == <<"A", "B", "C", "D", "E", "F", "G", "H", "I", "J", "K", "L", "M",
               "N", "O", "P", "Q", "R", "S", "T", "U", "V", "W", "X", "Y", "Z">>
LowerCase == <<"a", "b", "c", "d", "e", "f", "g", "h", "i", "j", "k", "l", "m",
               "n", "o", "p", "q", "r", "s", "t", "u", "v", "w", "x", "y", "z">>

LowerChar(c) ==
    IF \E k \in 1..26 : UpperCase[k] = c
    THEN LowerCase[CHOOSE k \in 1..26 : UpperCase[k] = c]
    ELSE c

RECURSIVE ToLower(_)
\* strings.ToLower
ToLower(s) ==
    IF Len(s) = 0 THEN ""
    ELSE IF Len(s) = 1 THEN LowerChar(s)
    ELSE ToLower(SubSeq(s, 1, Len(s) \div 2))
         \o ToLower(SubSeq(s, Len(s) \div 2 + 1, Len(s)))

(***************************************************************************)
(* Package packagemanager: the data model.                                 *)
(***************************************************************************)
NilUpgrade == 0

\* type Info; Upgrade is a *UpgradeInfo, an address into upgradeHeap
Info(name, version, arch, desc, upg) ==
    [Name |-> name, Version |-> version, Architecture |-> arch,
     Description |-> desc, Upgrade |-> upg]

\* type UpgradeInfo; Changelog is <<>> (nil) or <<ChangelogInfo>>
UpgradeInfo(newVersion, hasUpgrade, changelog, riskLevel, riskReason) ==
    [NewVersion |-> newVersion, HasUpgrade |-> hasUpgrade, Changelog |-> changelog,
     RiskLevel |-> riskLevel, RiskReason |-> riskReason]

\* type ChangelogInfo; CVEs is a slice, <<>> when nil
ChangelogInfo(summary, urgency, cves, author, date, raw) ==
    [Summary |-> summary, Urgency |-> urgency, CVEs |-> cves,
     Author |-> author, Date |-> date, Raw |-> raw]

(***************************************************************************)
(* Package apt: the parsers of the command outputs.                        *)
(***************************************************************************)
\* InstalledFromLines with len(fields) < 4 for the check of line 47
RECURSIVE InstalledFromLines_FourFields(_)
InstalledFromLines_FourFields(lines) ==
    IF Len(lines) = 0 THEN <<>>
    ELSE LET line == Head(lines)
             fields == Fields(line)
         IN  IF ~HasPrefix(line, "ii") THEN InstalledFromLines_FourFields(Tail(lines))
             ELSE IF Len(fields) < 4 THEN InstalledFromLines_FourFields(Tail(lines))
             ELSE <<Info(fields[2], fields[3], fields[4],
                         Join(SubSeq(fields, 5, Len(fields)), " "), NilUpgrade)>>
                  \o InstalledFromLines_FourFields(Tail(lines))

\* the loop of GetInstalledPackages over lines
RECURSIVE InstalledFromLines(_)
InstalledFromLines(lines) ==
    IF Len(lines) = 0 THEN <<>>
    ELSE LET line == Head(lines)
             fields == Fields(line)
         IN  IF ~HasPrefix(line, "ii") THEN InstalledFromLines(Tail(lines))
             ELSE IF Len(fields) < 5 THEN InstalledFromLines(Tail(lines))
             ELSE <<Info(fields[2], fields[3], fields[4],
                         Join(SubSeq(fields, 5, Len(fields)), " "), NilUpgrade)>>
                  \o InstalledFromLines(Tail(lines))

\* GetInstalledPackages, applied to the output of a successful `dpkg -l`
GetInstalledPackages(output) == InstalledFromLines(Split(output, "\n"))

\* bufio.Scanner with the default ScanLines split function
ScanLines(text) ==
    LET raw == Split(text, "\n")
        toks == IF raw[Len(raw)] = "" THEN SubSeq(raw, 1, Len(raw) - 1) ELSE raw
    IN  [k \in 1..Len(toks) |->
            IF Len(toks[k]) > 0 /\ Char(toks[k], Len(toks[k])) = "\r"
            THEN SubSeq(toks[k], 1, Len(toks[k]) - 1) ELSE toks[k]]

EmptyMap == [k \in {} |-> ""]

\* upgradableMap[key] = value
MapPut(m, key, value) ==
    [k \in DOMAIN m \cup {key} |-> IF k = key THEN value ELSE m[k]]

\* UpgradableFromLines without the cut of lines 92-94 at the colon
RECURSIVE UpgradableFromLines_KeepArch(_, _)
UpgradableFromLines_KeepArch(lines, upgradableMap) ==
    IF Len(lines) = 0 THEN upgradableMap
    ELSE LET line == Head(lines)
             fields == Fields(line)
             parts == SplitN2(fields[1], "/")
             trimmed == TrimSpace(parts[1])
             pkgName == trimmed
         IN  IF ~Contains(line, "[upgradable from:")
             THEN UpgradableFromLines_KeepArch(Tail(lines), upgradableMap)
             ELSE IF Len(fields) < 2
             THEN UpgradableFromLines_KeepArch(Tail(lines), upgradableMap)
             ELSE UpgradableFromLines_KeepArch(Tail(lines),
                                               MapPut(upgradableMap, pkgName, fields[2]))

\* UpgradableFromLines keeping the version that a name already has
RECURSIVE UpgradableFromLines_FirstWins(_, _)
UpgradableFromLines_FirstWins(lines, upgradableMap) ==
    IF Len(lines) = 0 THEN upgradableMap
    ELSE LET line == Head(lines)
             fields == Fields(line)
             parts == SplitN2(fields[1], "/")
             trimmed == TrimSpace(parts[1])
             pkgName == IF Contains(trimmed, ":") THEN Split(trimmed, ":")[1]
                        ELSE trimmed
         IN  IF ~Contains(line, "[upgradable from:")
             THEN UpgradableFromLines_FirstWins(Tail(lines), upgradableMap)
             ELSE IF Len(fields) < 2
             THEN UpgradableFromLines_FirstWins(Tail(lines), upgradableMap)
             ELSE IF pkgName \in DOMAIN upgradableMap
             THEN UpgradableFromLines_FirstWins(Tail(lines), upgradableMap)
             ELSE UpgradableFromLines_FirstWins(Tail(lines),
                                                MapPut(upgradableMap, pkgName, fields[2]))

\* the loop of parseUpgradablePackages over the lines of the scanner
RECURSIVE UpgradableFromLines(_, _)
UpgradableFromLines(lines, upgradableMap) ==
    IF Len(lines) = 0 THEN upgradableMap
    ELSE LET line == Head(lines)
             fields == Fields(line)
             parts == SplitN2(fields[1], "/")
             trimmed == TrimSpace(parts[1])
             pkgName == IF Contains(trimmed, ":") THEN Split(trimmed, ":")[1]
                        ELSE trimmed
         IN  IF ~Contains(line, "[upgradable from:")
             THEN UpgradableFromLines(Tail(lines), upgradableMap)
             ELSE IF Len(fields) < 2
             THEN UpgradableFromLines(Tail(lines), upgradableMap)
             ELSE UpgradableFromLines(Tail(lines),
                                      MapPut(upgradableMap, pkgName, fields[2]))

\* parseUpgradablePackages, applied to the text behind the reader
parseUpgradablePackages(text) == UpgradableFromLines(ScanLines(text), EmptyMap)

\* UrgencyOf reading what follows the last marker of the line
UrgencyOf_LastMarker(line) ==
    LET parts == Split(line, "urgency=")
        urgencyPart == parts[Len(parts)]
        idx == Index(urgencyPart, " ") - 1
    IN  IF idx > 0 THEN SubSeq(urgencyPart, 1, idx) ELSE TrimSpace(urgencyPart)

\* the urgency assignment of GetChangelog for a line that contains "urgency="
UrgencyOf(line) ==
    LET urgencyPart == Split(line, "urgency=")[2]
        idx == Index(urgencyPart, " ") - 1
    IN  IF idx > 0 THEN SubSeq(urgencyPart, 1, idx) ELSE TrimSpace(urgencyPart)

RECURSIVE CVEsOfWords(_)
CVEsOfWords(words) ==
    IF Len(words) = 0 THEN <<>>
    ELSE (IF HasPrefix(Head(words), "CVE-")
          THEN <<Trim(Head(words), {".", ","})>> ELSE <<>>)
         \o CVEsOfWords(Tail(words))

\* one iteration of the loop of GetChangelog over line i (0-based), after
\* the stop check
ChangelogStep(acc, i, line) ==
    LET authorDate == TrimPrefix(line, " -- ")
        parts == SplitN2(authorDate, "  ")
        footer == HasPrefix(line, " -- ") /\ Len(parts) = 2
    IN  ChangelogInfo(
            IF i > 2 /\ acc.Summary = "" /\ TrimSpace(line) # ""
                     /\ HasPrefix(TrimSpace(line), "*")
            THEN TrimSpace(line) ELSE acc.Summary,
            IF Contains(line, "urgency=") THEN UrgencyOf(line) ELSE acc.Urgency,
            IF Contains(line, "CVE-") THEN acc.CVEs \o CVEsOfWords(Fields(line))
            ELSE acc.CVEs,
            IF footer THEN TrimSpace(parts[1]) ELSE acc.Author,
            IF footer THEN TrimSpace(parts[2]) ELSE acc.Date,
            acc.Raw \o line \o "\n")

\* ChangelogLoop with the stop check of lines 121-123 at the end of the
\* iteration: the stop line is scanned like the lines before it
RECURSIVE ChangelogLoop_StopAfter(_, _, _, _)
ChangelogLoop_StopAfter(lines, i, stopVersion, acc) ==
    IF i >= Len(lines) THEN acc
    ELSE IF Contains(lines[i + 1], stopVersion)
    THEN ChangelogStep(acc, i, lines[i + 1])
    ELSE ChangelogLoop_StopAfter(lines, i + 1, stopVersion,
                                 ChangelogStep(acc, i, lines[i + 1]))

RECURSIVE ChangelogLoop(_, _, _, _)
ChangelogLoop(lines, i, stopVersion, acc) ==
    IF i >= Len(lines) THEN acc
    ELSE IF Contains(lines[i + 1], stopVersion) THEN acc
    ELSE ChangelogLoop(lines, i + 1, stopVersion,
                       ChangelogStep(acc, i, lines[i + 1]))

\* GetChangelog, applied to the output of a successful `apt changelog`
GetChangelog(out, stopVersion) ==
    ChangelogLoop(Split(out, "\n"), 0, stopVersion,
                  ChangelogInfo("", "", <<>>, "", "", ""))

(***************************************************************************)
(* Package apt: the operations on package lists.                           *)
(***************************************************************************)
\* SafeFrom with the comparison of line 180 made without strings.ToLower
RECURSIVE SafeFrom_CaseSensitive(_, _, _)
SafeFrom_CaseSensitive(packages, heap, from) ==
    IF from > Len(packages) THEN <<>>
    ELSE (IF heap[packages[from].Upgrade].RiskLevel = "low"
          THEN <<packages[from].Name>> ELSE <<>>)
         \o SafeFrom_CaseSensitive(packages, heap, from + 1)

\* the loop of UpdatePackages over packages[from..]: the names appended to
\* safe; every pkg.Upgrade here is non-nil
RECURSIVE SafeFrom(_, _, _)
SafeFrom(packages, heap, from) ==
    IF from > Len(packages) THEN <<>>
    ELSE (IF ToLower(heap[packages[from].Upgrade].RiskLevel) = "low"
          THEN <<packages[from].Name>> ELSE <<>>)
         \o SafeFrom(packages, heap, from + 1)

\* UpdatePackages without the return of lines 185-188: the command is run
\* for an empty selection too
UpdatePackages_AlwaysRun(packages, heap, cmdOk) ==
    IF \E i \in 1..Len(packages) : packages[i].Upgrade = NilUpgrade
    THEN [panic |-> TRUE, commands |-> <<>>, err |-> FALSE]
    ELSE LET safe == SafeFrom(packages, heap, 1)
         IN  [panic |-> FALSE,
              commands |-> << <<"apt-get", "install", "--only-upgrade", "-y">>
                              \o safe >>,
              err |-> ~cmdOk]

\* UpdatePackages: cmdOk is the outcome of cmd.Run(), consulted only when
\* the command is run.  The read of pkg.Upgrade.RiskLevel through a nil
\* pointer panics.
UpdatePackages(packages, heap, cmdOk) ==
    IF \E i \in 1..Len(packages) : packages[i].Upgrade = NilUpgrade
    THEN [panic |-> TRUE, commands |-> <<>>, err |-> FALSE]
    ELSE LET safe == SafeFrom(packages, heap, 1)
         IN  IF Len(safe) = 0
             THEN [panic |-> FALSE, commands |-> <<>>, err |-> FALSE]
             ELSE [panic |-> FALSE,
                   commands |-> << <<"apt-get", "install", "--only-upgrade", "-y">>
                                   \o safe >>,
                   err |-> ~cmdOk]

\* EnrichFrom appending pkg, the copy that range made of the element before
\* its Upgrade was set, in place of installedPackages[i]
RECURSIVE EnrichFrom_RangeCopy(_, _, _, _, _, _)
EnrichFrom_RangeCopy(installed, upgradableMap, changelogOut, heap, upgradable, from) ==
    IF from > Len(installed)
    THEN [heap |-> heap, installed |-> installed, upgradable |-> upgradable]
    ELSE LET pkg == installed[from]
             out == changelogOut[pkg.Name]
             changelog == IF Len(out) = 0 THEN <<>>
                          ELSE <<GetChangelog(out[1], pkg.Version)>>
             addr == Len(heap) + 1
             enriched == [pkg EXCEPT !.Upgrade = addr]
         IN  IF pkg.Name \in DOMAIN upgradableMap
             THEN EnrichFrom_RangeCopy([installed EXCEPT ![from] = enriched],
                             upgradableMap, changelogOut,
                             Append(heap, UpgradeInfo(upgradableMap[pkg.Name], TRUE,
                                                      changelog, "", "")),
                             Append(upgradable, pkg), from + 1)
             ELSE EnrichFrom_RangeCopy(installed, upgradableMap, changelogOut, heap,
                             upgradable, from + 1)

\* EnrichWithUpgradeInfo over installedPackages[from..]: changelogOut[name]
\* is <<>> when `apt changelog name` fails and <<output>> otherwise.  The
\* result is the heap, the installed slice and the upgradable slice.
RECURSIVE EnrichFrom(_, _, _, _, _, _)
EnrichFrom(installed, upgradableMap, changelogOut, heap, upgradable, from) ==
    IF from > Len(installed)
    THEN [heap |-> heap, installed |-> installed, upgradable |-> upgradable]
    ELSE LET pkg == installed[from]
             out == changelogOut[pkg.Name]
             changelog == IF Len(out) = 0 THEN <<>>
                          ELSE <<GetChangelog(out[1], pkg.Version)>>
             addr == Len(heap) + 1
             enriched == [pkg EXCEPT !.Upgrade = addr]
         IN  IF pkg.Name \in DOMAIN upgradableMap
             THEN EnrichFrom([installed EXCEPT ![from] = enriched],
                             upgradableMap, changelogOut,
                             Append(heap, UpgradeInfo(upgradableMap[pkg.Name], TRUE,
                                                      changelog, "", "")),
                             Append(upgradable, enriched), from + 1)
             ELSE EnrichFrom(installed, upgradableMap, changelogOut, heap,
                             upgradable, from + 1)

EnrichWithUpgradeInfo(installed, upgradableMap, changelogOut, heap) ==
    EnrichFrom(installed, upgradableMap, changelogOut, heap, <<>>, 1)

(***************************************************************************)
(* Package riskassessor.                                                   *)
(***************************************************************************)
\* type CompatibilityScore
CompatibilityScore(name, riskLevel, riskReason) ==
    [Name |-> name, RiskLevel |-> riskLevel, RiskReason |-> riskReason]

\* the loop of generatePrompt
RECURSIVE PromptBlocks(_, _)
PromptBlocks(packages, heap) ==
    IF Len(packages) = 0 THEN ""
    ELSE LET pkg == Head(packages)
         IN  (IF pkg.Upgrade = NilUpgrade \/ Len(heap[pkg.Upgrade].Changelog) = 0
              THEN ""
              ELSE "Package: " \o pkg.Name \o "\nUpdate: " \o pkg.Version \o " -> "
                   \o heap[pkg.Upgrade].NewVersion \o "\nChangelog:\n"
                   \o heap[pkg.Upgrade].Changelog[1].Raw \o "\n\n")
             \o PromptBlocks(Tail(packages), heap)

generatePrompt(packages, heap) ==
    "Analyze these Ubuntu package updates and provide a compatibility assessment:\n\n"
    \o PromptBlocks(packages, heap)

\* FirstMatch with the names compared without regard to case
FirstMatch_IgnoreCase(results, name) ==
    IF \E k \in 1..Len(results) : ToLower(results[k].Name) = ToLower(name)
    THEN CHOOSE k \in 1..Len(results) :
            /\ ToLower(results[k].Name) = ToLower(name)
            /\ \A j \in 1..(k - 1) : ToLower(results[j].Name) # ToLower(name)
    ELSE 0

\* FirstMatch without the break of line 165: the last entry named name
FirstMatch_Last(results, name) ==
    IF \E k \in 1..Len(results) : results[k].Name = name
    THEN CHOOSE k \in 1..Len(results) :
            /\ results[k].Name = name
            /\ \A j \in (k + 1)..Len(results) : results[j].Name # name
    ELSE 0

\* the index of the first entry of results named name, 0 when there is none
FirstMatch(results, name) ==
    IF \E k \in 1..Len(results) : results[k].Name = name
    THEN CHOOSE k \in 1..Len(results) :
            /\ results[k].Name = name
            /\ \A j \in 1..(k - 1) : results[j].Name # name
    ELSE 0

\* the merge loop of ScorePackageRisks over scoredPackages[from..]: the
\* writes go through the Upgrade pointers, into the heap
RECURSIVE ApplyScores(_, _, _, _)
ApplyScores(scoredPackages, results, heap, from) ==
    IF from > Len(scoredPackages) THEN heap
    ELSE LET pkg == scoredPackages[from]
             k == FirstMatch(results, pkg.Name)
         IN  IF pkg.Upgrade = NilUpgrade \/ k = 0
             THEN ApplyScores(scoredPackages, results, heap, from + 1)
             ELSE ApplyScores(scoredPackages, results,
                              [heap EXCEPT ![pkg.Upgrade].RiskLevel = results[k].RiskLevel,
                                           ![pkg.Upgrade].RiskReason = results[k].RiskReason],
                              from + 1)

\* the outcomes of the request of defaultCompatibilityScoreRequest
OracleOutcomes == {"ok", "api_error", "parse_error"}

\* ScorePackageRisks returning the unscored list along with the error
ScorePackageRisks_Partial(packages, heap, outcome, results) ==
    LET requested == Len(packages) # 0
        failed == requested /\ outcome # "ok"
    IN  [requests |-> IF requested THEN <<generatePrompt(packages, heap)>> ELSE <<>>,
         err |-> failed,
         results |-> IF failed \/ ~requested THEN <<>> ELSE results,
         scoredPackages |-> packages,
         heap |-> IF failed \/ ~requested THEN heap
                  ELSE ApplyScores(packages, results, heap, 1)]

\* ScorePackageRisks without the return of lines 103-105: the request is
\* made for an empty list too
ScorePackageRisks_AlwaysRequest(packages, heap, outcome, results) ==
    LET failed == outcome # "ok"
    IN  [requests |-> <<generatePrompt(packages, heap)>>,
         err |-> failed,
         results |-> IF failed THEN <<>> ELSE results,
         scoredPackages |-> IF failed THEN <<>> ELSE packages,
         heap |-> IF failed THEN heap ELSE ApplyScores(packages, results, heap, 1)]

\* ScorePackageRisks with the default request function: outcome and results
\* are what the oracle does with the one request, consulted only when a
\* request is made (the list is non-empty).
ScorePackageRisks(packages, heap, outcome, results) ==
    LET requested == Len(packages) # 0
        failed == requested /\ outcome # "ok"
        got == IF requested THEN results ELSE <<>>
    IN  [requests |-> IF requested THEN <<generatePrompt(packages, heap)>> ELSE <<>>,
         err |-> failed,
         results |-> IF failed THEN <<>> ELSE got,
         scoredPackages |-> IF failed THEN <<>> ELSE packages,
         heap |-> IF failed THEN heap ELSE ApplyScores(packages, got, heap, 1)]

(***************************************************************************)
(* Package storage.                                                        *)
(***************************************************************************)
SnapshotTypeInstalled == "installed"
SnapshotTypeUpdates == "updates"

Digits == <<"0", "1", "2", "3", "4", "5", "6", "7", "8", "9">>

RECURSIVE FormatInt(_)
\* the verb %d of fmt, for n >= 0
FormatInt(n) ==
    IF n < 10 THEN Digits[n + 1] ELSE FormatInt(n \div 10) \o Digits[(n % 10) + 1]

EmptyObject == [k \in {} |-> ""]

\* a member of a JSON object that the tag omitempty leaves out
OmitEmpty(key, value, isEmpty) ==
    IF isEmpty THEN EmptyObject ELSE [k \in {key} |-> value]

\* the byte 0xFF, and the bytes EF BF BD of the replacement rune U+FFFD
InvalidByte == "ÿ"
ReplacementRune == "ï¿½"

RECURSIVE MarshalString(_)
\* encoding/json of a string: the JSON string holds the text coerced to
\* valid UTF-8, every invalid byte replaced by U+FFFD.  Of the bytes of the
\* model only 0xFF is invalid.
MarshalString(s) ==
    LET i == Index(s, InvalidByte)
    IN  IF i = 0 THEN s
        ELSE SubSeq(s, 1, i - 1) \o ReplacementRune
             \o MarshalString(SubSeq(s, i + 1, Len(s)))

\* encoding/json of a ChangelogInfo
MarshalChangelog(c) ==
    [summary |-> MarshalString(c.Summary), urgency |-> MarshalString(c.Urgency),
     raw |-> MarshalString(c.Raw)]
    @@ OmitEmpty("cves", [k \in 1..Len(c.CVEs) |-> MarshalString(c.CVEs[k])],
                 Len(c.CVEs) = 0)
    @@ OmitEmpty("author", MarshalString(c.Author), c.Author = "")
    @@ OmitEmpty("date", MarshalString(c.Date), c.Date = "")

\* encoding/json of an UpgradeInfo
MarshalUpgrade(u) ==
    [new_version |-> MarshalString(u.NewVersion), has_upgrade |-> u.HasUpgrade]
    @@ (IF Len(u.Changelog) = 0 THEN EmptyObject
        ELSE [k \in {"changelog"} |-> MarshalChangelog(u.Changelog[1])])
    @@ OmitEmpty("risk_level", MarshalString(u.RiskLevel), u.RiskLevel = "")
    @@ OmitEmpty("risk_reason", MarshalString(u.RiskReason), u.RiskReason = "")

\* encoding/json of an Info
MarshalInfo(pkg, heap) ==
    [name |-> MarshalString(pkg.Name), version |-> MarshalString(pkg.Version),
     architecture |-> MarshalString(pkg.Architecture),
     description |-> MarshalString(pkg.Description)]
    @@ (IF pkg.Upgrade = NilUpgrade THEN EmptyObject
        ELSE [k \in {"upgrade"} |-> MarshalUpgrade(heap[pkg.Upgrade])])

\* encoder.Encode(packages): the JSON array written to the snapshot file
Encode(packages, heap) ==
    [i \in 1..Len(packages) |-> MarshalInfo(packages[i], heap)]

\* the member key of the JSON object o, zero when the object has none
Member(o, key, zero) == IF key \in DOMAIN o THEN o[key] ELSE zero

\* json.Unmarshal into a ChangelogInfo
UnmarshalChangelog(o) ==
    ChangelogInfo(Member(o, "summary", ""), Member(o, "urgency", ""),
                  Member(o, "cves", <<>>), Member(o, "author", ""),
                  Member(o, "date", ""), Member(o, "raw", ""))

\* json.Unmarshal into an UpgradeInfo
UnmarshalUpgrade(o) ==
    UpgradeInfo(Member(o, "new_version", ""), Member(o, "has_upgrade", FALSE),
                IF "changelog" \in DOMAIN o
                THEN <<UnmarshalChangelog(o["changelog"])>> ELSE <<>>,
                Member(o, "risk_level", ""), Member(o, "risk_reason", ""))

\* the elements of data that have the member upgrade, among the first n
Upgrades(data, n) == {j \in 1..n : "upgrade" \in DOMAIN data[j]}

\* json.NewDecoder(file).Decode(&packages): the slice, and the UpgradeInfo
\* values allocated for its Upgrade pointers, in the order of the array
Decode(data) ==
    LET addr(i) == Cardinality(Upgrades(data, i))
    IN  [packages |->
            [i \in 1..Len(data) |->
                Info(Member(data[i], "name", ""), Member(data[i], "version", ""),
                     Member(data[i], "architecture", ""),
                     Member(data[i], "description", ""),
                     IF "upgrade" \in DOMAIN data[i] THEN addr(i) ELSE NilUpgrade)],
         heap |->
            [a \in 1..Cardinality(Upgrades(data, Len(data))) |->
                UnmarshalUpgrade(
                    data[CHOOSE i \in 1..Len(data) :
                            "upgrade" \in DOMAIN data[i] /\ addr(i) = a]["upgrade"])]]

\* CountRisks with totalCount incremented only in the cases of the switch
RECURSIVE CountRisks_ScoredOnly(_, _, _, _)
CountRisks_ScoredOnly(packages, heap, from, acc) ==
    IF from > Len(packages) THEN acc
    ELSE LET pkg == packages[from]
             level == heap[pkg.Upgrade].RiskLevel
         IN  IF pkg.Upgrade = NilUpgrade
             THEN CountRisks_ScoredOnly(packages, heap, from + 1, acc)
             ELSE CountRisks_ScoredOnly(packages, heap, from + 1,
                    [totalCount |-> acc.totalCount
                         + (IF level \in {"high", "medium", "low"} THEN 1 ELSE 0),
                     highRiskCount |-> acc.highRiskCount + (IF level = "high" THEN 1 ELSE 0),
                     mediumRiskCount |-> acc.mediumRiskCount + (IF level = "medium" THEN 1 ELSE 0),
                     lowRiskCount |-> acc.lowRiskCount + (IF level = "low" THEN 1 ELSE 0),
                     highRiskPackages |-> acc.highRiskPackages
                         \o (IF level = "high" THEN <<pkg.Name>> ELSE <<>>),
                     mediumRiskPackages |-> acc.mediumRiskPackages
                         \o (IF level = "medium" THEN <<pkg.Name>> ELSE <<>>)])

\* the counting loop of WriteSummaryIfMissing over packages[from..]
RECURSIVE CountRisks(_, _, _, _)
CountRisks(packages, heap, from, acc) ==
    IF from > Len(packages) THEN acc
    ELSE LET pkg == packages[from]
             level == heap[pkg.Upgrade].RiskLevel
         IN  IF pkg.Upgrade = NilUpgrade
             THEN CountRisks(packages, heap, from + 1, acc)
             ELSE CountRisks(packages, heap, from + 1,
                    [totalCount |-> acc.totalCount + 1,
                     highRiskCount |-> acc.highRiskCount + (IF level = "high" THEN 1 ELSE 0),
                     mediumRiskCount |-> acc.mediumRiskCount + (IF level = "medium" THEN 1 ELSE 0),
                     lowRiskCount |-> acc.lowRiskCount + (IF level = "low" THEN 1 ELSE 0),
                     highRiskPackages |-> acc.highRiskPackages
                         \o (IF level = "high" THEN <<pkg.Name>> ELSE <<>>),
                     mediumRiskPackages |-> acc.mediumRiskPackages
                         \o (IF level = "medium" THEN <<pkg.Name>> ELSE <<>>)])

RECURSIVE BulletLines(_)
\* the loops that print "- %s\n" for every name
BulletLines(names) ==
    IF Len(names) = 0 THEN ""
    ELSE "- " \o Head(names) \o "\n" \o BulletLines(Tail(names))

\* the text that WriteSummaryIfMissing prints into a fresh summary file
SummaryText(packages, heap, timestamp) ==
    LET c == CountRisks(packages, heap, 1,
                 [totalCount |-> 0, highRiskCount |-> 0, mediumRiskCount |-> 0,
                  lowRiskCount |-> 0, highRiskPackages |-> <<>>,
                  mediumRiskPackages |-> <<>>])
    IN  "Update Summary - " \o timestamp \o "\n\n"
        \o "Total packages available for update: " \o FormatInt(c.totalCount) \o "\n"
        \o "High risk updates: " \o FormatInt(c.highRiskCount) \o "\n"
        \o "Medium risk updates: " \o FormatInt(c.mediumRiskCount) \o "\n"
        \o "Low risk updates: " \o FormatInt(c.lowRiskCount) \o "\n\n"
        \o (IF Len(c.highRiskPackages) > 0
            THEN "High risk packages (manual review recommended):\n"
                 \o BulletLines(c.highRiskPackages) \o "\n"
            ELSE "")
        \o (IF Len(c.mediumRiskPackages) > 0
            THEN "Medium risk packages (caution advised):\n"
                 \o BulletLines(c.mediumRiskPackages) \o "\n"
            ELSE "")
        \o "Low risk packages will be updated automatically.\n"

(***************************************************************************)
(* The state: one process at a time runs main, run after run, over a file  *)
(* system that outlives the runs.                                          *)
(***************************************************************************)
VARIABLES
    pc,                 \* the statement of main that runs next, "exited" after exit
    run,                \* the number of the run, which is also its second of the clock
    today,              \* the day of the clock
    env,                \* the environment variables read so far: TRUE when non-empty
    dirs,               \* the snapshot ids whose directory exists
    files,              \* files[id][name]: <<>> when absent, <<content>> otherwise
    installedPackages,  \* main's slices of Info
    upgradableMap,
    upgradablePackages,
    scoredPackages,
    upgradeHeap,        \* the UpgradeInfo values that the Upgrade pointers address
    results,            \* the results of the oracle's response of this run
    oracleRequests,     \* the prompts sent to the oracle in this run
    aptCalls,           \* the upgrade commands run in this run
    sent,               \* the messages posted to Telegram in this run
    summaryPath,        \* main's summaryPath
    readResult,         \* what the last ReadSnapshot of this process returned
    procs,              \* the concurrent processes of a day: the position and the list of each
    commandOutputs,     \* what each command of this run came to: <<>> when it
                        \* failed, <<output>> otherwise
    trace,              \* the calls made by main in this run, with how each ended
    exitCode            \* -1 while running, then the exit status of the process

vars == <<pc, run, today, env, dirs, files, installedPackages, upgradableMap,
          upgradablePackages, scoredPackages, upgradeHeap, results,
          oracleRequests, aptCalls, sent, summaryPath, procs, readResult, commandOutputs,
          trace, exitCode>>

fsVars == <<dirs, files>>
dataVars == <<installedPackages, upgradableMap, upgradablePackages,
              scoredPackages, upgradeHeap, results>>
ioVars == <<oracleRequests, aptCalls, sent>>

TwoDigits(n) == IF n < 10 THEN "0" \o FormatInt(n) ELSE FormatInt(n)

\* time.Now().Format("20060102"), for a clock that shows a day of November 2026
SnapshotID(day) == "202611" \o TwoDigits(day)

\* time.Now().Format(time.RFC1123), without the name of the day
RFC1123(day, second) ==
    TwoDigits(day) \o " Nov 2026 00:00:" \o TwoDigits(second) \o " UTC"

SnapshotIDs == {SnapshotID(d) : d \in 1..MaxDays}

NoFiles == [installed |-> <<>>, updates |-> <<>>, summary |-> <<>>]

\* filepath.Join(s.baseDir, "snapshots", id, name), relative to baseDir
SnapshotPath(id, name) == "snapshots/" \o id \o "/" \o name

\* CheckSnapshot: the directories and the files afterwards, and what it returns
CheckSnapshot(fs, id, mkdirOk) ==
    IF ~mkdirOk
    THEN [dirs |-> fs.dirs, files |-> fs.files, err |-> TRUE, path |-> ""]
    ELSE [dirs |-> fs.dirs \cup {id}, files |-> fs.files, err |-> FALSE,
          path |-> SnapshotPath(id, "installed.json")]

\* WriteSnapshot opening the file with O_EXCL in place of os.Create: a file
\* that exists is kept as it is
WriteSnapshot_KeepExisting(fs, packages, heap, id, snapshotType, outcome) ==
    LET filename == IF snapshotType = SnapshotTypeUpdates THEN "updates" ELSE "installed"
        made == fs.dirs \cup {id}
        written(content) ==
            IF Len(fs.files[id][filename]) > 0 THEN fs.files
            ELSE [fs.files EXCEPT ![id][filename] = <<content>>]
    IN  IF outcome = "mkdir_error"
        THEN [dirs |-> fs.dirs, files |-> fs.files, err |-> TRUE, path |-> ""]
        ELSE IF outcome = "create_error"
        THEN [dirs |-> made, files |-> fs.files, err |-> TRUE, path |-> ""]
        ELSE IF outcome = "encode_error"
        THEN [dirs |-> made, files |-> written([complete |-> FALSE, data |-> <<>>]),
              err |-> TRUE, path |-> ""]
        ELSE [dirs |-> made,
              files |-> written([complete |-> TRUE, data |-> Encode(packages, heap)]),
              err |-> FALSE, path |-> SnapshotPath(id, filename \o ".json")]

\* WriteSnapshot without lines 72-74: every snapshot goes to installed.json
WriteSnapshot_InstalledName(fs, packages, heap, id, snapshotType, outcome) ==
    LET filename == "installed"
        made == fs.dirs \cup {id}
        written(content) == [fs.files EXCEPT ![id][filename] = <<content>>]
    IN  IF outcome = "mkdir_error"
        THEN [dirs |-> fs.dirs, files |-> fs.files, err |-> TRUE, path |-> ""]
        ELSE IF outcome = "create_error"
        THEN [dirs |-> made, files |-> fs.files, err |-> TRUE, path |-> ""]
        ELSE IF outcome = "encode_error"
        THEN [dirs |-> made, files |-> written([complete |-> FALSE, data |-> <<>>]),
              err |-> TRUE, path |-> ""]
        ELSE [dirs |-> made,
              files |-> written([complete |-> TRUE, data |-> Encode(packages, heap)]),
              err |-> FALSE, path |-> SnapshotPath(id, filename \o ".json")]

\* WriteSnapshot: outcome is what the file system does with MkdirAll,
\* os.Create and the write of the encoder
WriteSnapshot(fs, packages, heap, id, snapshotType, outcome) ==
    LET filename == IF snapshotType = SnapshotTypeUpdates THEN "updates" ELSE "installed"
        made == fs.dirs \cup {id}
        written(content) == [fs.files EXCEPT ![id][filename] = <<content>>]
    IN  IF outcome = "mkdir_error"
        THEN [dirs |-> fs.dirs, files |-> fs.files, err |-> TRUE, path |-> ""]
        ELSE IF outcome = "create_error"
        THEN [dirs |-> made, files |-> fs.files, err |-> TRUE, path |-> ""]
        ELSE IF outcome = "encode_error"
        THEN [dirs |-> made, files |-> written([complete |-> FALSE, data |-> <<>>]),
              err |-> TRUE, path |-> ""]
        ELSE [dirs |-> made,
              files |-> written([complete |-> TRUE, data |-> Encode(packages, heap)]),
              err |-> FALSE, path |-> SnapshotPath(id, filename \o ".json")]

\* readResult before any ReadSnapshot
NoRead == [packages |-> <<>>, heap |-> <<>>, err |-> FALSE]

\* ReadSnapshot: openOk is whether os.Open succeeds on an existing file; a
\* file that was not written to its end does not decode
ReadSnapshot(fs, id, openOk) ==
    LET file == fs.files[id].installed
    IN  IF Len(file) = 0 \/ ~openOk
        THEN [packages |-> <<>>, heap |-> <<>>, err |-> TRUE]
        ELSE IF ~file[1].complete
        THEN [packages |-> <<>>, heap |-> <<>>, err |-> TRUE]
        ELSE [packages |-> Decode(file[1].data).packages,
              heap |-> Decode(file[1].data).heap, err |-> FALSE]

\* WriteSummaryIfMissing without the os.Stat check of lines 115-118
WriteSummaryIfMissing_Overwrite(fs, id, packages, heap, timestamp, createOk) ==
    IF id \notin fs.dirs \/ ~createOk
    THEN [dirs |-> fs.dirs, files |-> fs.files, err |-> TRUE, path |-> ""]
    ELSE [dirs |-> fs.dirs,
          files |-> [fs.files EXCEPT ![id].summary =
                        <<SummaryText(packages, heap, timestamp)>>],
          err |-> FALSE, path |-> SnapshotPath(id, "summary.txt")]

\* WriteSummaryIfMissing: createOk is whether os.Create succeeds in an
\* existing directory
WriteSummaryIfMissing(fs, id, packages, heap, timestamp, createOk) ==
    IF Len(fs.files[id].summary) > 0
    THEN [dirs |-> fs.dirs, files |-> fs.files, err |-> FALSE,
          path |-> SnapshotPath(id, "summary.txt")]
    ELSE IF id \notin fs.dirs \/ ~createOk
    THEN [dirs |-> fs.dirs, files |-> fs.files, err |-> TRUE, path |-> ""]
    ELSE [dirs |-> fs.dirs,
          files |-> [fs.files EXCEPT ![id].summary =
                        <<SummaryText(packages, heap, timestamp)>>],
          err |-> FALSE, path |-> SnapshotPath(id, "summary.txt")]

(***************************************************************************)
(* The inputs of a run of the pipeline: what the commands print and what   *)
(* the oracle answers.                                                     *)
(***************************************************************************)
DpkgOutputs ==
    {"||/ Name Version Arch Description\nii  a 1.0 all pkg a\nrc  c 3.0 all gone\nii  d 1\nii  b 2.0 all pkg b\n",
     "ii  b 2.0 all pkg b\n"}

AptListOutputs ==
    {"Listing...\na/repo 1.1 all [upgradable from: 1.0]\nb:all/repo 2.1 all [upgradable from: 2.0]\n",
     "Listing...\nb/repo 2.1 all [upgradable from: 2.0]\n"}

ChangelogOutputs ==
    {"p (1.1) u; urgency=low\n\n  * fix CVE-1\n  * more\n\n -- D  Mon\n\np (1.0) u; urgency=low\n\n  * init\n"}

OracleResponses ==
    {<<CompatibilityScore("a", "low", "fixes"), CompatibilityScore("b", "medium", "config")>>,
     <<CompatibilityScore("b", "LOW", "docs"), CompatibilityScore("b", "high", "api")>>,
     <<CompatibilityScore("a", "high", "breaks")>>,
     <<CompatibilityScore("B", "low", "other")>>}

\* what writing a snapshot file can come to
WriteOutcomes == {"ok", "mkdir_error", "create_error", "encode_error"}

(***************************************************************************)
(* main, statement by statement.                                           *)
(***************************************************************************)
Init ==
    /\ pc = "main"
    /\ run = 1
    /\ today = 1
    /\ env = EmptyObject
    /\ dirs = {}
    /\ files = [id \in SnapshotIDs |-> NoFiles]
    /\ installedPackages = <<>>
    /\ upgradableMap = EmptyMap
    /\ upgradablePackages = <<>>
    /\ scoredPackages = <<>>
    /\ upgradeHeap = <<>>
    /\ results = <<>>
    /\ oracleRequests = <<>>
    /\ aptCalls = <<>>
    /\ sent = <<>>
    /\ summaryPath = ""
    /\ readResult = NoRead
    /\ procs = <<>>
    /\ commandOutputs = EmptyObject
    /\ trace = <<>>
    /\ exitCode = -1

FS == [dirs |-> dirs, files |-> files]

Call(stage, result) == [stage |-> stage, result |-> result]

\* Continue without the os.Exit(1): the error is printed and main goes on
Continue_NoExit(stage, failed, next) ==
    /\ trace' = Append(trace, Call(stage, IF failed THEN "error" ELSE "ok"))
    /\ pc' = next
    /\ exitCode' = exitCode

\* Continue with a return in place of os.Exit(1): the process exits with 0
Continue_ExitZero(stage, failed, next) ==
    /\ trace' = Append(trace, Call(stage, IF failed THEN "error" ELSE "ok"))
    /\ pc' = IF failed THEN "exited" ELSE next
    /\ exitCode' = IF failed THEN 0 ELSE exitCode

\* os.Exit(1) after a failed call, or the next statement
Continue(stage, failed, next) ==
    /\ trace' = Append(trace, Call(stage, IF failed THEN "error" ELSE "ok"))
    /\ pc' = IF failed THEN "exited" ELSE next
    /\ exitCode' = IF failed THEN 1 ELSE exitCode

\* lines 17-25: NewManager, NewOpenAIAssessor (which reads OPENAI_API_KEY)
\* and DefaultStorage
MainDefaultStorage ==
    /\ pc = "main"
    /\ \E key \in BOOLEAN, storageOk \in BOOLEAN :
          /\ env' = [k \in {"OPENAI_API_KEY"} |-> key]
          /\ Continue("DefaultStorage", ~storageOk, "CheckSnapshot")
    /\ UNCHANGED <<run, today, fsVars, dataVars, ioVars, summaryPath,
                   procs, readResult, commandOutputs>>

\* lines 27-34
MainCheckSnapshot ==
    /\ pc = "CheckSnapshot"
    /\ \E mkdirOk \in BOOLEAN :
          LET r == CheckSnapshot(FS, SnapshotID(today), mkdirOk)
          IN  /\ dirs' = r.dirs
              /\ files' = r.files
              /\ Continue("CheckSnapshot", r.err, "GetInstalledPackages")
    /\ UNCHANGED <<run, today, env, dataVars, ioVars, summaryPath, procs, readResult,
                   commandOutputs>>

\* commandOutputs once command has come to out
Printed(command, out) == [c \in {command} |-> out] @@ commandOutputs

\* lines 36-42, on a host where `dpkg -l` fails or prints one of outputs
GetInstalledStep(outputs) ==
    /\ pc = "GetInstalledPackages"
    /\ \/ /\ Continue("GetInstalledPackages", TRUE, "WriteInstalled")
          /\ commandOutputs' = Printed("dpkg -l", <<>>)
          /\ UNCHANGED installedPackages
       \/ \E output \in outputs :
             /\ installedPackages' = GetInstalledPackages(output)
             /\ commandOutputs' = Printed("dpkg -l", <<output>>)
             /\ Continue("GetInstalledPackages", FALSE, "WriteInstalled")
    /\ UNCHANGED <<run, today, env, fsVars, upgradableMap, upgradablePackages,
                   scoredPackages, upgradeHeap, results, ioVars, summaryPath,
                   procs, readResult>>

MainGetInstalledPackages == GetInstalledStep(DpkgOutputs)

\* lines 44-49
MainWriteInstalled ==
    /\ pc = "WriteInstalled"
    /\ \E outcome \in WriteOutcomes :
          LET r == WriteSnapshot(FS, installedPackages, upgradeHeap,
                                 SnapshotID(today), SnapshotTypeInstalled, outcome)
          IN  /\ dirs' = r.dirs
              /\ files' = r.files
              /\ Continue("WriteSnapshot(installed)", r.err, "GetUpgradablePackages")
    /\ UNCHANGED <<run, today, env, dataVars, ioVars, summaryPath, procs, readResult,
                   commandOutputs>>

\* GetUpgradableStep without the test of err at lines 63-65: what the
\* command printed before it failed is parsed
GetUpgradableStep_IgnoreError(outputs) ==
    /\ pc = "GetUpgradablePackages"
    /\ \E upgOut \in outputs :
          /\ upgradableMap' = parseUpgradablePackages(upgOut)
          /\ \/ /\ commandOutputs' = Printed("apt list --upgradable", <<>>)
                /\ trace' = Append(trace, Call("GetUpgradablePackages", "command_error"))
             \/ /\ commandOutputs' = Printed("apt list --upgradable", <<upgOut>>)
                /\ trace' = Append(trace, Call("GetUpgradablePackages", "ok"))
    /\ pc' = "EnrichWithUpgradeInfo"
    /\ UNCHANGED <<run, today, env, fsVars, installedPackages, upgradablePackages,
                   scoredPackages, upgradeHeap, results, ioVars, summaryPath,
                   procs, readResult, exitCode>>

\* lines 51-54, on a host where `apt list --upgradable` fails or prints one
\* of outputs: GetUpgradablePackages returns an empty map when it fails
GetUpgradableStep(outputs) ==
    /\ pc = "GetUpgradablePackages"
    /\ \/ /\ upgradableMap' = EmptyMap
          /\ commandOutputs' = Printed("apt list --upgradable", <<>>)
          /\ trace' = Append(trace, Call("GetUpgradablePackages", "command_error"))
       \/ \E upgOut \in outputs :
             /\ upgradableMap' = parseUpgradablePackages(upgOut)
             /\ commandOutputs' = Printed("apt list --upgradable", <<upgOut>>)
             /\ trace' = Append(trace, Call("GetUpgradablePackages", "ok"))
    /\ pc' = "EnrichWithUpgradeInfo"
    /\ UNCHANGED <<run, today, env, fsVars, installedPackages, upgradablePackages,
                   scoredPackages, upgradeHeap, results, ioVars, summaryPath,
                   procs, readResult, exitCode>>

MainGetUpgradablePackages == GetUpgradableStep(AptListOutputs)

\* the names whose changelog EnrichWithUpgradeInfo fetches
Fetched ==
    {installedPackages[i].Name : i \in 1..Len(installedPackages)}
        \cap DOMAIN upgradableMap

\* what an `apt changelog` command comes to: it fails, or prints a changelog
ChangelogResults == {<<>>} \cup {<<out>> : out \in ChangelogOutputs}

\* line 56, on a host where each `apt changelog` comes to one of changelogs
EnrichStep(changelogs) ==
    /\ pc = "EnrichWithUpgradeInfo"
    /\ \E changelogOut \in [Fetched -> changelogs] :
          LET r == EnrichWithUpgradeInfo(installedPackages, upgradableMap,
                                         changelogOut, upgradeHeap)
          IN  /\ upgradeHeap' = r.heap
              /\ installedPackages' = r.installed
              /\ upgradablePackages' = r.upgradable
              /\ commandOutputs' =
                    [c \in {"apt changelog " \o name : name \in Fetched} |->
                        changelogOut[SubSeq(c, 15, Len(c))]] @@ commandOutputs
    /\ trace' = Append(trace, Call("EnrichWithUpgradeInfo", "ok"))
    /\ pc' = "ScorePackageRisks"
    /\ UNCHANGED <<run, today, env, fsVars, upgradableMap, scoredPackages, results,
                   ioVars, summaryPath, procs, readResult, exitCode>>

MainEnrichWithUpgradeInfo == EnrichStep(ChangelogResults)

\* lines 58-64, for an oracle that answers with one of responses: the
\* request, when one is made, fails or is answered; without an API key the
\* service refuses it
ScoreStep(responses) ==
    /\ pc = "ScorePackageRisks"
    /\ \E outcome \in (IF env["OPENAI_API_KEY"] THEN OracleOutcomes ELSE {"api_error"}),
          response \in responses :
          LET r == ScorePackageRisks(upgradablePackages, upgradeHeap, outcome, response)
          IN  /\ oracleRequests' = oracleRequests \o r.requests
              /\ results' = r.results
              /\ scoredPackages' = r.scoredPackages
              /\ upgradeHeap' = r.heap
              /\ Continue("ScorePackageRisks", r.err, "WriteUpdates")
    /\ UNCHANGED <<run, today, env, fsVars, installedPackages, upgradableMap,
                   upgradablePackages, aptCalls, sent, summaryPath, procs, readResult,
                   commandOutputs>>

MainScorePackageRisks == ScoreStep(OracleResponses)

\* lines 66-71
MainWriteUpdates ==
    /\ pc = "WriteUpdates"
    /\ \E outcome \in WriteOutcomes :
          LET r == WriteSnapshot(FS, scoredPackages, upgradeHeap,
                                 SnapshotID(today), SnapshotTypeUpdates, outcome)
          IN  /\ dirs' = r.dirs
              /\ files' = r.files
              /\ Continue("WriteSnapshot(updates)", r.err, "WriteSummaryIfMissing")
    /\ UNCHANGED <<run, today, env, dataVars, ioVars, summaryPath, procs, readResult,
                   commandOutputs>>

\* lines 73-80
MainWriteSummaryIfMissing ==
    /\ pc = "WriteSummaryIfMissing"
    /\ \E createOk \in BOOLEAN :
          LET r == WriteSummaryIfMissing(FS, SnapshotID(today), scoredPackages,
                                         upgradeHeap, RFC1123(today, run), createOk)
          IN  /\ dirs' = r.dirs
              /\ files' = r.files
              /\ summaryPath' = r.path
              /\ Continue("WriteSummaryIfMissing", r.err, "UpdatePackages")
    /\ UNCHANGED <<run, today, env, dataVars, ioVars, procs, readResult, commandOutputs>>

\* lines 82-88; a panic ends the process with status 2
MainUpdatePackages ==
    /\ pc = "UpdatePackages"
    /\ \E cmdOk \in BOOLEAN :
          LET r == UpdatePackages(scoredPackages, upgradeHeap, cmdOk)
          IN  /\ aptCalls' = aptCalls \o r.commands
              /\ commandOutputs' =
                    IF r.commands = <<>> THEN commandOutputs
                    ELSE Printed("apt-get install",
                                 <<IF cmdOk THEN "exit status 0" ELSE "exit status 1">>)
              /\ IF r.panic
                 THEN /\ trace' = Append(trace, Call("UpdatePackages", "panic"))
                      /\ pc' = "exited"
                      /\ exitCode' = 2
                 ELSE Continue("UpdatePackages", r.err, "Notify")
    /\ UNCHANGED <<run, today, env, fsVars, dataVars, oracleRequests, sent,
                   summaryPath, procs, readResult>>

\* DefaultTelegramNotifier, given the two variables it reads
DefaultTelegramNotifier(botKey, chatID) ==
    IF ~botKey THEN [err |-> TRUE]
    ELSE IF ~chatID THEN [err |-> TRUE]
    ELSE [err |-> FALSE]

\* lines 90-107: the notification, then the return of main
MainNotify ==
    /\ pc = "Notify"
    /\ \E towerKey \in BOOLEAN :
          \/ /\ ~towerKey
             /\ env' = env @@ [k \in {"WATCHTOWER_TELEGRAM_BOT_KEY"} |-> towerKey]
             /\ trace' = Append(trace, Call("Notify", "disabled"))
             /\ sent' = sent
          \/ /\ towerKey
             /\ \E botKey \in BOOLEAN, chatID \in BOOLEAN, sendOk \in BOOLEAN :
                   LET notifier == DefaultTelegramNotifier(botKey, chatID)
                       content == files[SnapshotID(today)].summary[1]
                   IN  /\ env' = env @@ [k \in {"WATCHTOWER_TELEGRAM_BOT_KEY"} |-> towerKey]
                                     @@ [k \in {"WATCHTURM_TELEGRAM_BOT_KEY"} |-> botKey]
                                     @@ (IF botKey
                                         THEN [k \in {"WATCHTURM_TELEGRAM_CHAT_ID"} |-> chatID]
                                         ELSE EmptyObject)
                       /\ IF notifier.err
                          THEN /\ trace' = Append(trace, Call("Notify", "notifier_error"))
                               /\ sent' = sent
                          ELSE IF ~sendOk
                          THEN /\ trace' = Append(trace, Call("Notify", "send_error"))
                               /\ sent' = sent
                          ELSE /\ trace' = Append(trace, Call("Notify", "ok"))
                               /\ sent' = Append(sent, content)
    /\ pc' = "exited"
    /\ exitCode' = 0
    /\ UNCHANGED <<run, today, fsVars, dataVars, oracleRequests, aptCalls,
                   summaryPath, procs, readResult, commandOutputs>>

\* one run of the program, in an empty base directory
Next ==
    \/ MainDefaultStorage
    \/ MainCheckSnapshot
    \/ MainGetInstalledPackages
    \/ MainWriteInstalled
    \/ MainGetUpgradablePackages
    \/ MainEnrichWithUpgradeInfo
    \/ MainScorePackageRisks
    \/ MainWriteUpdates
    \/ MainWriteSummaryIfMissing
    \/ MainUpdatePackages
    \/ MainNotify

Spec == Init /\ [][Next]_vars

\* the next run of the program, the same day or a later one, over the files
\* that the earlier runs left
NewRun ==
    /\ pc = "exited"
    /\ run < MaxRuns
    /\ run' = run + 1
    /\ \E day \in {today, today + 1} : day <= MaxDays /\ today' = day
    /\ pc' = "main"
    /\ env' = EmptyObject
    /\ installedPackages' = <<>>
    /\ upgradableMap' = EmptyMap
    /\ upgradablePackages' = <<>>
    /\ scoredPackages' = <<>>
    /\ upgradeHeap' = <<>>
    /\ results' = <<>>
    /\ oracleRequests' = <<>>
    /\ aptCalls' = <<>>
    /\ sent' = <<>>
    /\ summaryPath' = ""
    /\ readResult' = NoRead
    /\ procs' = procs
    /\ commandOutputs' = EmptyObject
    /\ trace' = <<>>
    /\ exitCode' = -1
    /\ UNCHANGED fsVars

\* the host of the repeated runs: the inventory changes between runs, the
\* mirror answers, and the oracle gives one of two responses
RunsAptListOutputs ==
    {"Listing...\na/repo 1.1 all [upgradable from: 1.0]\nb:all/repo 2.1 all [upgradable from: 2.0]\n"}

RunsChangelogResults == {<<out>> : out \in ChangelogOutputs}

RunsOracleResponses ==
    {<<CompatibilityScore("a", "low", "fixes"), CompatibilityScore("b", "medium", "config")>>,
     <<CompatibilityScore("b", "LOW", "docs"), CompatibilityScore("b", "high", "api")>>}

\* the runs of the program one after the other, as cron starts them
NextRuns ==
    \/ MainDefaultStorage
    \/ MainCheckSnapshot
    \/ MainGetInstalledPackages
    \/ MainWriteInstalled
    \/ GetUpgradableStep(RunsAptListOutputs)
    \/ EnrichStep(RunsChangelogResults)
    \/ ScoreStep(RunsOracleResponses)
    \/ MainWriteUpdates
    \/ MainWriteSummaryIfMissing
    \/ MainUpdatePackages
    \/ MainNotify
    \/ NewRun

SpecRuns == Init /\ [][NextRuns]_vars

(***************************************************************************)
(* What a state shows of the run.                                          *)
(***************************************************************************)
Called(stage) == \E i \in 1..Len(trace) : trace[i].stage = stage

Ended(stage, result) == \E i \in 1..Len(trace) : trace[i] = Call(stage, result)

LastCall == trace[Len(trace)]

\* the names that the upgrade commands of this run name
UpgradedNames ==
    UNION {{aptCalls[c][k] : k \in 5..Len(aptCalls[c])} : c \in 1..Len(aptCalls)}

\* the UpgradeInfo of the i-th scored package
ScoredUpgrade(i) == upgradeHeap[scoredPackages[i].Upgrade]

ResultNames == {results[k].Name : k \in 1..Len(results)}

FatalStages ==
    {"DefaultStorage", "CheckSnapshot", "GetInstalledPackages",
     "WriteSnapshot(installed)", "ScorePackageRisks", "WriteSnapshot(updates)",
     "WriteSummaryIfMissing", "UpdatePackages"}

\* the order of the calls in main
StageOrder ==
    <<"DefaultStorage", "CheckSnapshot", "GetInstalledPackages",
      "WriteSnapshot(installed)", "GetUpgradablePackages", "EnrichWithUpgradeInfo",
      "ScorePackageRisks", "WriteSnapshot(updates)", "WriteSummaryIfMissing",
      "UpdatePackages", "Notify">>

StageIndex(stage) == CHOOSE k \in 1..Len(StageOrder) : StageOrder[k] = stage

(***************************************************************************)
(* The claims about one run, specification Spec, and about the runs one    *)
(* after the other, specification SpecRuns.                                *)
(***************************************************************************)

\* C2: fail-closed.  Once ScorePackageRisks has returned, every scored
\* package whose name does not occur in the oracle's response has risk_level
\* "" and risk_reason "", and no upgrade command of the run names it; and no
\* package with risk_level "" is named by an upgrade command.
C2_FailClosed ==
    Ended("ScorePackageRisks", "ok") =>
        \A i \in 1..Len(scoredPackages) :
            /\ scoredPackages[i].Name \notin ResultNames =>
                  /\ ScoredUpgrade(i).RiskLevel = ""
                  /\ ScoredUpgrade(i).RiskReason = ""
                  /\ scoredPackages[i].Name \notin UpgradedNames
            /\ ScoredUpgrade(i).RiskLevel = "" =>
                  scoredPackages[i].Name \notin UpgradedNames

\* C2, witness: a run whose upgrade command ran although the response did
\* not name one of the scored packages
C2_Witness ==
    /\ Ended("UpdatePackages", "ok")
    /\ Len(aptCalls) = 1
    /\ \E i \in 1..Len(scoredPackages) :
          /\ scoredPackages[i].Name \notin ResultNames
          /\ ScoredUpgrade(i).RiskLevel = ""

\* C3: a package that has an upgrade but no changelog is never named by an
\* upgrade command, whatever the oracle's response contains.
C3_NoChangelogNeverApplied ==
    \A i \in 1..Len(scoredPackages) :
        Len(ScoredUpgrade(i).Changelog) = 0 =>
            scoredPackages[i].Name \notin UpgradedNames

\* C4: when the oracle request fails, ScorePackageRisks returns an error
\* and no package list, no score has been merged, the run has ended with
\* status 1 and no upgrade command was run.
C4_OracleFailureAborts ==
    Ended("ScorePackageRisks", "error") =>
        /\ scoredPackages = <<>>
        /\ results = <<>>
        /\ \A a \in 1..Len(upgradeHeap) :
              upgradeHeap[a].RiskLevel = "" /\ upgradeHeap[a].RiskReason = ""
        /\ pc = "exited"
        /\ exitCode = 1
        /\ LastCall = Call("ScorePackageRisks", "error")
        /\ aptCalls = <<>>

\* C4, witness: a request was sent for a non-empty list and failed
C4_Witness ==
    /\ Ended("ScorePackageRisks", "error")
    /\ Len(oracleRequests) = 1
    /\ Len(upgradablePackages) = 2
    /\ env["OPENAI_API_KEY"]

\* C5: the summary of a snapshot id is write-once.  No step changes a
\* summary.txt that exists, and a call of WriteSummaryIfMissing that finds
\* one returns its path.
C5_SummaryWriteOnce ==
    [][\A id \in SnapshotIDs :
          Len(files[id].summary) > 0 =>
              /\ files'[id].summary = files[id].summary
              /\ (pc = "WriteSummaryIfMissing" /\ id = SnapshotID(today)) =>
                    /\ summaryPath' = SnapshotPath(id, "summary.txt")
                    /\ pc' = "UpdatePackages"]_vars

\* C5, witness: a later run of the same day has called WriteSummaryIfMissing
\* with scored packages, and the summary is not the text this run would
\* have written
C5_Witness ==
    /\ run = 2
    /\ today = 1
    /\ Ended("WriteSummaryIfMissing", "ok")
    /\ Len(scoredPackages) > 0
    /\ files[SnapshotID(today)].summary
          # <<SummaryText(scoredPackages, upgradeHeap, RFC1123(today, 1))>>
    /\ files[SnapshotID(today)].summary
          # <<SummaryText(scoredPackages, upgradeHeap, RFC1123(today, 2))>>

\* C6: when OPENAI_API_KEY is absent the run fails at startup: no inventory
\* is read, no snapshot file is written, no upgrade is applied, and the
\* process exits with a non-zero status.
C6_MissingKeyFatalAtStartup ==
    ("OPENAI_API_KEY" \in DOMAIN env /\ ~env["OPENAI_API_KEY"]) =>
        /\ ~Called("GetInstalledPackages")
        /\ ~Called("WriteSnapshot(installed)")
        /\ ~Called("WriteSnapshot(updates)")
        /\ ~Called("WriteSummaryIfMissing")
        /\ aptCalls = <<>>
        /\ pc = "exited" => exitCode # 0

\* C7: a failure of a fatal stage stops the run, and nothing is retried.
\* The failed call is the last call of the run and the process has exited;
\* the calls of a run are made in the order of main, each at most once; at
\* most one request goes to the oracle and at most one upgrade command runs.
C7_FailureStopsRun ==
    /\ \A i \in 1..Len(trace) :
          (trace[i].stage \in FatalStages /\ trace[i].result # "ok") =>
              i = Len(trace) /\ pc = "exited"
    /\ \A i \in 1..Len(trace), j \in 1..Len(trace) :
          i < j => StageIndex(trace[i].stage) < StageIndex(trace[j].stage)
    /\ Len(oracleRequests) <= 1
    /\ Len(aptCalls) <= 1

\* C7, witness: the updates snapshot could not be written, after a request
\* to the oracle
C7_Witness ==
    /\ Len(trace) = 8
    /\ LastCall = Call("WriteSnapshot(updates)", "error")
    /\ Len(oracleRequests) = 1
    /\ pc = "exited"

\* C8: the process exits with a non-zero status exactly when a fatal stage
\* failed: the inventory fetch, the snapshot or summary I/O (the storage
\* directory, the snapshot directory, the two snapshot files, the summary),
\* the oracle call or the apply.  A notifier that cannot be built or a
\* message that cannot be delivered leaves the status 0.
C8_ExitStatus ==
    pc = "exited" =>
        /\ exitCode # 0 <=>
              \E i \in 1..Len(trace) :
                  trace[i].stage \in FatalStages /\ trace[i].result = "error"
        /\ LastCall.stage = "Notify" => exitCode = 0

\* C8, witness: the notifier could not be built, or the message could not
\* be delivered, after an upgrade
C8_Witness ==
    /\ pc = "exited"
    /\ LastCall \in {Call("Notify", "notifier_error"), Call("Notify", "send_error")}
    /\ Len(aptCalls) = 1
    /\ exitCode = 0

(***************************************************************************)
(* UpdatePackages, ScorePackageRisks and WriteSummaryIfMissing applied to  *)
(* any package list: main taken at the call, with the list drawn from all  *)
(* the lists of at most MaxPackages packages.                              *)
(***************************************************************************)
PackageNames == {"a", "A", "b"}

RiskLevels == {"", "low", "LOW", "medium", "high"}

\* the list of the packages named names[i], with an upgrade when hasUpgrade[i]
PackageList(names, hasUpgrade) ==
    [i \in 1..Len(names) |->
        Info(names[i], "1.0", "all", "pkg", IF hasUpgrade[i] THEN i ELSE NilUpgrade)]

\* the UpgradeInfo values of that list, with the risk levels risks[i]
HeapOf(names, risks) ==
    [i \in 1..Len(names) |-> UpgradeInfo("1.1", TRUE, <<>>, risks[i], "")]

\* main at the statement stage, in a snapshot directory without files
At(stage) ==
    /\ pc = stage
    /\ run = 1
    /\ today = 1
    /\ env = [k \in {"OPENAI_API_KEY"} |-> TRUE]
    /\ dirs = {SnapshotID(1)}
    /\ files = [id \in SnapshotIDs |-> NoFiles]
    /\ installedPackages = <<>>
    /\ upgradableMap = EmptyMap
    /\ results = <<>>
    /\ oracleRequests = <<>>
    /\ aptCalls = <<>>
    /\ sent = <<>>
    /\ summaryPath = ""
    /\ readResult = NoRead
    /\ procs = <<>>
    /\ commandOutputs = EmptyObject
    /\ trace = <<>>
    /\ exitCode = -1

\* scoredPackages is any list, scored or not
AnyScoredPackages ==
    \E n \in 0..MaxPackages :
        \E names \in [1..n -> PackageNames], hasUpgrade \in [1..n -> BOOLEAN],
           risks \in [1..n -> RiskLevels] :
            /\ \A i \in 1..n : ~hasUpgrade[i] => risks[i] = ""
            /\ scoredPackages = PackageList(names, hasUpgrade)
            /\ upgradablePackages = scoredPackages
            /\ upgradeHeap = HeapOf(names, risks)

InitUpdate == At("UpdatePackages") /\ AnyScoredPackages

NextUpdate == MainUpdatePackages

SpecUpdate == InitUpdate /\ [][NextUpdate]_vars

InitSummary == At("WriteSummaryIfMissing") /\ AnyScoredPackages

NextSummary == MainWriteSummaryIfMissing

SpecSummary == InitSummary /\ [][NextSummary]_vars

\* the responses of at most MaxResults entries
ScoreValues == {<<"low", "minor">>, <<"high", "breaking">>}

\* the names that a response gives
ResponseNames == {"a", "A"}

AnyResponses ==
    UNION {[1..n -> {CompatibilityScore(name, v[1], v[2]) :
                        name \in ResponseNames, v \in ScoreValues}] :
           n \in 0..MaxResults}

InitScore ==
    /\ At("ScorePackageRisks")
    /\ \E n \in 0..MaxPackages :
          \E names \in [1..n -> PackageNames], hasUpgrade \in [1..n -> BOOLEAN] :
              /\ upgradablePackages = PackageList(names, hasUpgrade)
              /\ upgradeHeap = HeapOf(names, [i \in 1..n |-> ""])
    /\ scoredPackages = <<>>

NextScore == ScoreStep(AnyResponses)

SpecScore == InitScore /\ [][NextScore]_vars

\* the members of the set S of indices, in increasing order
InOrder(S) ==
    [k \in 1..Cardinality(S) |->
        CHOOSE i \in S : Cardinality({j \in S : j < i}) = k - 1]

\* the names of the scored packages at the indices of S, in input order
NamesAt(S) == [k \in 1..Cardinality(S) |-> scoredPackages[InOrder(S)[k]].Name]

LowSpellings == {"low", "loW", "lOw", "lOW", "Low", "LoW", "LOw", "LOW"}

(***************************************************************************)
(* The claims about UpdatePackages, specification SpecUpdate.              *)
(***************************************************************************)

\* C1: for any package list (every package carrying an upgrade record, so
\* that the call returns), the upgrade command names exactly the packages
\* whose risk_level is a spelling of "low", in input order, and there is no
\* command when there is none; a package whose risk_level is "", "medium",
\* "high" or anything else adds no name to the command.
C1_OnlyLowRiskApplied ==
    (Called("UpdatePackages") /\ LastCall.result # "panic") =>
        LET low == {i \in 1..Len(scoredPackages) :
                        ScoredUpgrade(i).RiskLevel \in LowSpellings}
        IN  IF low = {}
            THEN aptCalls = <<>>
            ELSE aptCalls = << <<"apt-get", "install", "--only-upgrade", "-y">>
                               \o NamesAt(low) >>

\* C1, witness: a command was run for a list that holds a package scored
\* "LOW", one scored "low", and one that is not low risk
C1_Witness ==
    /\ Called("UpdatePackages")
    /\ Len(aptCalls) = 1
    /\ Len(scoredPackages) = 3
    /\ \E i, j, k \in 1..3 :
          /\ ScoredUpgrade(i).RiskLevel = "LOW"
          /\ ScoredUpgrade(j).RiskLevel = "low"
          /\ ScoredUpgrade(k).RiskLevel \in {"", "medium", "high"}

\* the scored packages that the case-folded comparison takes for low risk
LowRisk == {i \in 1..Len(scoredPackages) : ScoredUpgrade(i).RiskLevel \in LowSpellings}

\* C21: for a list in which no package has a risk_level that is, case
\* folded, "low", the empty list included, UpdatePackages runs no command
\* and returns without error; for a list with such a package it runs
\* exactly one upgrade command, and returns an error exactly when the
\* command reports failure.  (Every package carries an upgrade record.)
C21_UpdatePackagesOutcome ==
    (Called("UpdatePackages") /\ LastCall.result # "panic") =>
        IF LowRisk = {}
        THEN /\ aptCalls = <<>>
             /\ "apt-get install" \notin DOMAIN commandOutputs
             /\ LastCall.result = "ok" /\ pc = "Notify"
        ELSE /\ Len(aptCalls) = 1
             /\ "apt-get install" \in DOMAIN commandOutputs
             /\ LastCall.result = "error"
                   <=> commandOutputs["apt-get install"] = <<"exit status 1">>
             /\ LastCall.result = "ok"
                   <=> commandOutputs["apt-get install"] = <<"exit status 0">>

\* C21, witness: the command failed for a list of one low-risk package and
\* two others, and the call returned the error
C21_Witness ==
    /\ Ended("UpdatePackages", "error")
    /\ Len(scoredPackages) = 3
    /\ Cardinality(LowRisk) = 1
    /\ Len(aptCalls) = 1
    /\ commandOutputs["apt-get install"] = <<"exit status 1">>
    /\ pc = "exited" /\ exitCode = 1

(***************************************************************************)
(* The claims about ScorePackageRisks, specification SpecScore.            *)
(***************************************************************************)

\* C9: the risk merge.  After a successful ScorePackageRisks every package
\* with an upgrade record has the risk_level and risk_reason of the first
\* entry of the response, in response order, whose name equals its name
\* exactly; later entries of that name are ignored; a package without such
\* an entry keeps empty risk fields.
C9_RiskMergeFirstMatch ==
    Ended("ScorePackageRisks", "ok") =>
        \A i \in 1..Len(scoredPackages) :
            scoredPackages[i].Upgrade # NilUpgrade =>
                LET matches == {k \in 1..Len(results) :
                                    results[k].Name = scoredPackages[i].Name}
                IN  IF matches = {}
                    THEN /\ ScoredUpgrade(i).RiskLevel = ""
                         /\ ScoredUpgrade(i).RiskReason = ""
                    ELSE \E k \in matches :
                            /\ \A j \in matches : k <= j
                            /\ ScoredUpgrade(i).RiskLevel = results[k].RiskLevel
                            /\ ScoredUpgrade(i).RiskReason = results[k].RiskReason

\* C9, witness: the response names a package twice with different scores,
\* after an entry whose name differs from it only in case, and another
\* package of the list is not named at all
C9_Witness ==
    /\ Ended("ScorePackageRisks", "ok")
    /\ Len(results) = 3
    /\ results[1].Name = "A" /\ results[2].Name = "a" /\ results[3].Name = "a"
    /\ results[2].RiskLevel # results[3].RiskLevel
    /\ results[1].RiskLevel # results[2].RiskLevel
    /\ \E i, j \in 1..Len(scoredPackages) :
          /\ scoredPackages[i].Name = "a" /\ scoredPackages[i].Upgrade # NilUpgrade
          /\ scoredPackages[j].Name = "b" /\ scoredPackages[j].Upgrade # NilUpgrade

(***************************************************************************)
(* The claims about WriteSummaryIfMissing, specification SpecSummary.      *)
(***************************************************************************)
\* what the report says after label, on the lines that begin with it
Reported(lines, label) ==
    {TrimPrefix(lines[k], label) :
        k \in {j \in 1..Len(lines) : HasPrefix(lines[j], label)}}

\* the names that the report lists under header: the lines "- name" that
\* follow it, up to the first empty line
ListedUnder(lines, header) ==
    IF \E h \in 1..Len(lines) : lines[h] = header
    THEN LET h == CHOOSE h \in 1..Len(lines) : lines[h] = header
             end == CHOOSE e \in (h + 1)..Len(lines) :
                        /\ lines[e] = ""
                        /\ \A j \in (h + 1)..(e - 1) : lines[j] # ""
         IN  [k \in 1..(end - h - 1) |-> TrimPrefix(lines[h + k], "- ")]
    ELSE <<>>

WithUpgrade == {i \in 1..Len(scoredPackages) : scoredPackages[i].Upgrade # NilUpgrade}

WithRisk(level) == {i \in WithUpgrade : ScoredUpgrade(i).RiskLevel = level}

\* C10: a summary that WriteSummaryIfMissing writes reports as total the
\* number of packages carrying an upgrade, as high, medium and low counts
\* the numbers of those packages with that risk_level, and lists under high
\* and medium exactly the names of those packages, in input order; for
\* a low, A medium, b high it reports 3, 1, 1, 1, A under medium and b
\* under high.
C10_SummaryCounts ==
    Ended("WriteSummaryIfMissing", "ok") =>
        LET lines == Split(files[SnapshotID(today)].summary[1], "\n")
            total == Reported(lines, "Total packages available for update: ")
            high == Reported(lines, "High risk updates: ")
            medium == Reported(lines, "Medium risk updates: ")
            low == Reported(lines, "Low risk updates: ")
            highNames == ListedUnder(lines, "High risk packages (manual review recommended):")
            mediumNames == ListedUnder(lines, "Medium risk packages (caution advised):")
        IN  /\ total = {FormatInt(Cardinality(WithUpgrade))}
            /\ high = {FormatInt(Cardinality(WithRisk("high")))}
            /\ medium = {FormatInt(Cardinality(WithRisk("medium")))}
            /\ low = {FormatInt(Cardinality(WithRisk("low")))}
            /\ highNames = NamesAt(WithRisk("high"))
            /\ mediumNames = NamesAt(WithRisk("medium"))
            /\ (/\ Len(scoredPackages) = 3
                /\ WithUpgrade = {1, 2, 3}
                /\ [i \in 1..3 |-> scoredPackages[i].Name] = <<"a", "A", "b">>
                /\ [i \in 1..3 |-> ScoredUpgrade(i).RiskLevel]
                      = <<"low", "medium", "high">>)
               => /\ total = {"3"} /\ low = {"1"} /\ medium = {"1"} /\ high = {"1"}
                  /\ mediumNames = <<"A">>
                  /\ highNames = <<"b">>

\* C10, witness: the summary was written for a low, A medium, b high
C10_Witness ==
    /\ Ended("WriteSummaryIfMissing", "ok")
    /\ Len(scoredPackages) = 3
    /\ WithUpgrade = {1, 2, 3}
    /\ [i \in 1..3 |-> scoredPackages[i].Name] = <<"a", "A", "b">>
    /\ [i \in 1..3 |-> ScoredUpgrade(i).RiskLevel] = <<"low", "medium", "high">>
    /\ Len(files[SnapshotID(today)].summary) = 1

(***************************************************************************)
(* WriteSnapshot and ReadSnapshot applied to any package collection: the   *)
(* storage test, with the collection drawn from the lists of at most       *)
(* MaxPackages packages.                                                   *)
(***************************************************************************)
SnapshotDescriptions == {"shell", "caf" \o InvalidByte}

SnapshotChangelogs ==
    {ChangelogInfo("* fix", "low", <<>>, "", "", "p (1.1) u; urgency=low\n  * fix\n"),
     ChangelogInfo("* fix CVE-1", "high", <<"CVE-1">>, "D", "Mon",
                   "p (1.1) u; urgency=high\n  * fix CVE-1\n -- D  Mon\n")}

\* nil, or an UpgradeInfo: the zero value, one that EnrichWithUpgradeInfo
\* builds without changelog, and scored ones with a changelog
SnapshotUpgrades ==
    {<<>>, <<UpgradeInfo("", FALSE, <<>>, "", "")>>,
     <<UpgradeInfo("1.1", TRUE, <<>>, "", "")>>}
    \cup {<<UpgradeInfo("1.1", TRUE, <<c>>, "low", "minor")>> : c \in SnapshotChangelogs}

\* the slice of the packages described by choice, and the UpgradeInfo values
\* that its Upgrade pointers address
TestPackages(choice) ==
    LET n == Len(choice)
        addr(i) == Cardinality({j \in 1..i : Len(choice[j][2]) > 0})
    IN  [packages |->
            [i \in 1..n |->
                Info("p" \o FormatInt(i), "1.0", "all", choice[i][1],
                     IF Len(choice[i][2]) > 0 THEN addr(i) ELSE NilUpgrade)],
         heap |->
            [a \in 1..addr(n) |->
                choice[CHOOSE i \in 1..n :
                          Len(choice[i][2]) > 0 /\ addr(i) = a][2][1]]]

\* the storage test before its call of WriteSnapshot
InitSnapshot ==
    /\ pc = "WriteSnapshot"
    /\ run = 1
    /\ today \in 1..MaxDays
    /\ env = EmptyObject
    /\ dirs = {}
    /\ files = [id \in SnapshotIDs |-> NoFiles]
    /\ \E n \in 0..MaxPackages :
          \E choice \in [1..n -> SnapshotDescriptions \X SnapshotUpgrades] :
              /\ installedPackages = TestPackages(choice).packages
              /\ upgradeHeap = TestPackages(choice).heap
    /\ upgradableMap = EmptyMap
    /\ upgradablePackages = <<>>
    /\ scoredPackages = <<>>
    /\ results = <<>>
    /\ oracleRequests = <<>>
    /\ aptCalls = <<>>
    /\ sent = <<>>
    /\ summaryPath = ""
    /\ readResult = NoRead
    /\ procs = <<>>
    /\ commandOutputs = EmptyObject
    /\ trace = <<>>
    /\ exitCode = -1

\* storage.WriteSnapshot(testPackages, snapshotID, snapshotType)
StorageWriteSnapshot ==
    /\ pc = "WriteSnapshot"
    /\ \E snapshotType \in {SnapshotTypeInstalled, SnapshotTypeUpdates},
          outcome \in WriteOutcomes :
          LET r == WriteSnapshot(FS, installedPackages, upgradeHeap,
                                 SnapshotID(today), snapshotType, outcome)
          IN  /\ dirs' = r.dirs
              /\ files' = r.files
              /\ Continue("WriteSnapshot(" \o snapshotType \o ")", r.err, "ReadSnapshot")
    /\ UNCHANGED <<run, today, env, dataVars, ioVars, summaryPath, procs, readResult,
                   commandOutputs>>

\* storage.ReadSnapshot(snapshotID), and the end of the test
StorageReadSnapshot ==
    /\ pc = "ReadSnapshot"
    /\ \E openOk \in BOOLEAN :
          LET r == ReadSnapshot(FS, SnapshotID(today), openOk)
          IN  /\ readResult' = r
              /\ trace' = Append(trace, Call("ReadSnapshot",
                                             IF r.err THEN "error" ELSE "ok"))
              /\ exitCode' = IF r.err THEN 1 ELSE 0
    /\ pc' = "exited"
    /\ UNCHANGED <<run, today, env, fsVars, dataVars, ioVars, summaryPath,
                   procs, commandOutputs>>

NextSnapshot == StorageWriteSnapshot \/ StorageReadSnapshot

SpecSnapshot == InitSnapshot /\ [][NextSnapshot]_vars

\* the packages as values: every Upgrade pointer replaced by what it
\* addresses, <<>> for nil
Deref(packages, heap) ==
    [i \in 1..Len(packages) |->
        [packages[i] EXCEPT !.Upgrade = IF @ = NilUpgrade THEN <<>> ELSE <<heap[@]>>]]

(***************************************************************************)
(* The claims about the snapshot files.                                    *)
(***************************************************************************)

\* C11: round trip.  After WriteSnapshot(P, id, installed) and
\* ReadSnapshot(id) have both succeeded, the collection read is equal to P:
\* same length, same order, and every field of every package equal,
\* including an absent upgrade, an absent changelog and empty risk fields.
C11_RoundTrip ==
    (Ended("WriteSnapshot(installed)", "ok") /\ Ended("ReadSnapshot", "ok")) =>
        Deref(readResult.packages, readResult.heap)
            = Deref(installedPackages, upgradeHeap)

\* the content of a snapshot file that holds the collection packages
Holding(packages, heap) == <<[complete |-> TRUE, data |-> Encode(packages, heap)]>>

\* C12: WriteSnapshot replaces the file of its kind.  A call that succeeds
\* leaves in installed.json (updates.json) exactly the collection it was
\* given, whatever the file held, and leaves the file of the other kind,
\* summary.txt and the files of every other id as they were; no other step
\* of a run changes a snapshot file that exists.  So the snapshot files
\* hold what the latest successful write of the day put there.
C12_WriteSnapshotReplaces ==
    [][LET id == SnapshotID(today)
       IN  /\ (pc = "WriteInstalled" /\ pc' = "GetUpgradablePackages") =>
                 files' = [files EXCEPT ![id].installed =
                              Holding(installedPackages, upgradeHeap)]
           /\ (pc = "WriteUpdates" /\ pc' = "WriteSummaryIfMissing") =>
                 files' = [files EXCEPT ![id].updates =
                              Holding(scoredPackages, upgradeHeap)]
           /\ pc \notin {"WriteInstalled", "WriteUpdates"} =>
                 \A d \in SnapshotIDs :
                     /\ files'[d].installed = files[d].installed
                     /\ files'[d].updates = files[d].updates]_vars

\* C12, witness: the second run of a day has written an installed.json of
\* one package over the one of the first run, which listed the two packages
\* that the updates.json of the first run still holds
C12_Witness ==
    /\ run = 2
    /\ today = 1
    /\ Ended("WriteSnapshot(installed)", "ok")
    /\ ~Called("WriteSnapshot(updates)")
    /\ Len(installedPackages) = 1
    /\ files[SnapshotID(today)].installed = Holding(installedPackages, upgradeHeap)
    /\ Len(files[SnapshotID(today)].updates) = 1
    /\ Len(files[SnapshotID(today)].updates[1].data) = 2
    /\ Len(files[SnapshotID(today)].summary) = 1

(***************************************************************************)
(* EnrichWithUpgradeInfo applied to any installed list and any upgradable  *)
(* map: main taken at the call.                                            *)
(***************************************************************************)
NewVersions == {"1.1", "2.0"}

\* the maps from some of the package names to a new version
AnyUpgradableMaps == UNION {[keys -> NewVersions] : keys \in SUBSET PackageNames}

InitEnrich ==
    /\ pc = "EnrichWithUpgradeInfo"
    /\ run = 1
    /\ today = 1
    /\ env = [k \in {"OPENAI_API_KEY"} |-> TRUE]
    /\ dirs = {SnapshotID(1)}
    /\ files = [id \in SnapshotIDs |-> NoFiles]
    /\ \E n \in 0..MaxPackages :
          \E names \in [1..n -> PackageNames] :
              installedPackages = PackageList(names, [i \in 1..n |-> FALSE])
    /\ upgradableMap \in AnyUpgradableMaps
    /\ upgradablePackages = <<>>
    /\ scoredPackages = <<>>
    /\ upgradeHeap = <<>>
    /\ results = <<>>
    /\ oracleRequests = <<>>
    /\ aptCalls = <<>>
    /\ sent = <<>>
    /\ summaryPath = ""
    /\ readResult = NoRead
    /\ procs = <<>>
    /\ commandOutputs = EmptyObject
    /\ trace = <<>>
    /\ exitCode = -1

NextEnrich == MainEnrichWithUpgradeInfo

SpecEnrich == InitEnrich /\ [][NextEnrich]_vars

\* the indices of the installed records whose name is a key of the map
Keyed == {i \in 1..Len(installedPackages) :
             installedPackages[i].Name \in DOMAIN upgradableMap}

(***************************************************************************)
(* The claims about EnrichWithUpgradeInfo, specification SpecEnrich.       *)
(***************************************************************************)

\* C13: EnrichWithUpgradeInfo returns, in installed order, exactly the
\* installed records whose name is a key of the upgradable map, each with an
\* upgrade record that has has_upgrade = true and new_version = map[name];
\* the installed records whose name is not a key keep no upgrade record, and
\* no other field of an installed record changes.
C13_EnrichWithUpgradeInfo ==
    [][pc = "EnrichWithUpgradeInfo" =>
          /\ Len(installedPackages') = Len(installedPackages)
          /\ \A i \in 1..Len(installedPackages) :
                /\ [installedPackages'[i] EXCEPT !.Upgrade = NilUpgrade]
                      = installedPackages[i]
                /\ i \in Keyed =>
                      /\ installedPackages'[i].Upgrade # NilUpgrade
                      /\ upgradeHeap'[installedPackages'[i].Upgrade].HasUpgrade
                      /\ upgradeHeap'[installedPackages'[i].Upgrade].NewVersion
                            = upgradableMap[installedPackages[i].Name]
                /\ i \notin Keyed => installedPackages'[i].Upgrade = NilUpgrade
          /\ upgradablePackages'
                = [k \in 1..Cardinality(Keyed) |-> installedPackages'[InOrder(Keyed)[k]]]
          /\ \A name \in PackageNames :
                (\E k \in 1..Len(upgradablePackages') :
                    upgradablePackages'[k].Name = name)
                <=> (/\ name \in DOMAIN upgradableMap
                     /\ \E i \in 1..Len(installedPackages) :
                           installedPackages[i].Name = name)]_vars

\* C13, witness: of three installed records the first and the third, which
\* have the same name, are keys of the map, and the second is not
C13_Witness ==
    /\ Ended("EnrichWithUpgradeInfo", "ok")
    /\ Len(installedPackages) = 3
    /\ Keyed = {1, 3}
    /\ installedPackages[1].Name = installedPackages[3].Name
    /\ Len(upgradablePackages) = 2
    /\ installedPackages[2].Upgrade = NilUpgrade

(***************************************************************************)
(* GetChangelog applied to the changelogs of a package p: main taken at    *)
(* the call of EnrichWithUpgradeInfo, with p installed in one version and  *)
(* upgradable to a newer one, and `apt changelog p` printing entries from  *)
(* the newer version downwards.                                            *)
(***************************************************************************)
\* the versions of p, newest first
PublishedVersions == <<"2.0", "1.1.1", "1.1", "1.0">>

\* the urgency and the bullets of an entry
EntryShapes ==
    {[urgency |-> "low", bullets |-> <<"  * fix">>],
     [urgency |-> "medium", bullets |-> <<"  * fix CVE-1", "  * more">>],
     [urgency |-> "high", bullets |-> <<"  * fix CVE-2, CVE-3.">>]}

\* the lines of a changelog entry in the layout of Debian: the header, an
\* empty line, the bullets, an empty line, the footer, an empty line
EntryLines(version, shape) ==
    <<"p (" \o version \o ") u; urgency=" \o shape.urgency, "">> \o shape.bullets
    \o <<"", " -- D  Mon", "">>

RECURSIVE ChangelogLines(_, _, _)
\* the lines of the entries of the versions from..to, the entry of
\* PublishedVersions[k] having the shape shapes[k]
ChangelogLines(from, to, shapes) ==
    IF from > to THEN <<>>
    ELSE EntryLines(PublishedVersions[from], shapes[from])
         \o ChangelogLines(from + 1, to, shapes)

\* what `apt changelog p` can print when PublishedVersions[from] is the
\* version to install: the entries down to any older version
ChangelogTexts(from) ==
    {Join(ChangelogLines(from, to, shapes), "\n") \o "\n" :
        to \in {from + k : k \in 0..(Len(PublishedVersions) - from)},
        shapes \in [1..Len(PublishedVersions) -> EntryShapes]}

VersionIndex(version) ==
    CHOOSE k \in 1..Len(PublishedVersions) : PublishedVersions[k] = version

InitChangelog ==
    /\ pc = "EnrichWithUpgradeInfo"
    /\ run = 1
    /\ today = 1
    /\ env = [k \in {"OPENAI_API_KEY"} |-> TRUE]
    /\ dirs = {SnapshotID(1)}
    /\ files = [id \in SnapshotIDs |-> NoFiles]
    /\ \E new \in 1..Len(PublishedVersions), old \in 1..Len(PublishedVersions) :
          /\ new < old
          /\ installedPackages = <<Info("p", PublishedVersions[old], "all", "pkg",
                                        NilUpgrade)>>
          /\ upgradableMap = [k \in {"p"} |-> PublishedVersions[new]]
    /\ upgradablePackages = <<>>
    /\ scoredPackages = <<>>
    /\ upgradeHeap = <<>>
    /\ results = <<>>
    /\ oracleRequests = <<>>
    /\ aptCalls = <<>>
    /\ sent = <<>>
    /\ summaryPath = ""
    /\ readResult = NoRead
    /\ procs = <<>>
    /\ commandOutputs = EmptyObject
    /\ trace = <<>>
    /\ exitCode = -1

NextChangelog ==
    EnrichStep({<<>>} \cup {<<out>> : out \in ChangelogTexts(VersionIndex(upgradableMap["p"]))})

SpecChangelog == InitChangelog /\ [][NextChangelog]_vars

\* the version that the header line of an entry names, "" for another line
HeaderVersion(line) ==
    IF HasPrefix(line, "p (") /\ Contains(line, ")")
    THEN SubSeq(line, 4, Index(line, ")") - 1) ELSE ""

\* the position in lines of the header of the entry of version, Len(lines) + 1
\* when no entry has that version
EntryOf(lines, version) ==
    IF \E k \in 1..Len(lines) : HeaderVersion(lines[k]) = version
    THEN CHOOSE k \in 1..Len(lines) :
            /\ HeaderVersion(lines[k]) = version
            /\ \A j \in 1..(k - 1) : HeaderVersion(lines[j]) # version
    ELSE Len(lines) + 1

\* GetChangelog has returned a record for p
ChangelogFetched ==
    /\ Ended("EnrichWithUpgradeInfo", "ok")
    /\ Len(commandOutputs["apt changelog p"]) = 1

(***************************************************************************)
(* The claims about GetChangelog, specification SpecChangelog.             *)
(***************************************************************************)

\* C14: for a changelog that lists its entries newest first and the
\* installed version as stopVersion, raw holds the lines of the entries
\* newer than the installed version, all of them and in order, and no line
\* of the entry of the installed version or of an older one; also when the
\* new version contains the installed one as a substring and when no entry
\* has the installed version.
C14_OnlyNewerEntries ==
    ChangelogFetched =>
        LET lines == Split(commandOutputs["apt changelog p"][1], "\n")
            stop == EntryOf(lines, installedPackages[1].Version)
            raw == upgradeHeap[1].Changelog[1].Raw
        IN  Split(raw, "\n") = SubSeq(lines, 1, stop - 1) \o <<"">>

\* the first of lines that begins with "*" once trimmed, trimmed; "" when
\* there is none
FirstBullet(lines) ==
    IF \E k \in 1..Len(lines) : HasPrefix(TrimSpace(lines[k]), "*")
    THEN TrimSpace(lines[CHOOSE k \in 1..Len(lines) :
                            /\ HasPrefix(TrimSpace(lines[k]), "*")
                            /\ \A j \in 1..(k - 1) : ~HasPrefix(TrimSpace(lines[j]), "*")])
    ELSE ""

\* C15: the summary of the record is the first bullet line of the scanned
\* text: the first of the lines before the stop, which are the lines of
\* raw, that begins with "*" once its leading whitespace is trimmed; in the
\* layout header, empty line, bullets it is the first bullet of the newest
\* entry.
C15_SummaryIsFirstBullet ==
    ChangelogFetched =>
        upgradeHeap[1].Changelog[1].Summary
            = FirstBullet(Split(upgradeHeap[1].Changelog[1].Raw, "\n"))

(***************************************************************************)
(* GetInstalledPackages and parseUpgradablePackages applied to any         *)
(* listing of at most MaxLines lines: main taken at the call.              *)
(***************************************************************************)
\* lines of `dpkg -l`: the header, installed packages, a removed one, a held
\* one, and lines with too few fields
DpkgLines ==
    {"Desired=Unknown/Install/Remove/Purge/Hold",
     "||/ Name Version Architecture Description",
     "+++-====-====-====-====",
     "ii  a 1.0 all pkg a",
     "ii  b:amd64   2.0  amd64  the   b  pkg",
     "rc  c 3.0 all gone",
     "hi  h 1.0 all held",
     "ii  d 1",
     "ii  e 1.0 all",
     ""}

\* the texts of the lines of at most MaxLines lines of pool, each ended by a
\* newline
Listings(pool) ==
    {Join(lines, "\n") \o (IF Len(lines) > 0 THEN "\n" ELSE "") :
        lines \in UNION {[1..n -> pool] : n \in 0..MaxLines}}

\* main at a statement before the upgradable packages are known
AtStart(stage) ==
    /\ At(stage)
    /\ upgradablePackages = <<>>
    /\ scoredPackages = <<>>
    /\ upgradeHeap = <<>>

InitInstalled == AtStart("GetInstalledPackages")

NextInstalled == GetInstalledStep(Listings(DpkgLines))

SpecInstalled == InitInstalled /\ [][NextInstalled]_vars

(***************************************************************************)
(* The claims about GetInstalledPackages, specification SpecInstalled.     *)
(***************************************************************************)

\* C16: GetInstalledPackages returns one record for every line that begins
\* with "ii" and has at least five fields, in line order, with the fields 2,
\* 3 and 4 as name, version and architecture and the remaining fields,
\* joined by single spaces, as description; header lines, lines of another
\* status and lines with too few fields give no record and do not change
\* the records of the other lines.
C16_GetInstalledPackages ==
    Ended("GetInstalledPackages", "ok") =>
        LET lines == Split(commandOutputs["dpkg -l"][1], "\n")
            kept == {k \in 1..Len(lines) :
                        /\ HasPrefix(lines[k], "ii")
                        /\ Len(Fields(lines[k])) >= 5}
            at == InOrder(kept)
        IN  /\ Len(installedPackages) = Cardinality(kept)
            /\ \A j \in 1..Cardinality(kept) :
                  LET fields == Fields(lines[at[j]])
                  IN  /\ installedPackages[j].Name = fields[2]
                      /\ installedPackages[j].Version = fields[3]
                      /\ installedPackages[j].Architecture = fields[4]
                      /\ Fields(installedPackages[j].Description)
                            = SubSeq(fields, 5, Len(fields))
                      /\ ~Contains(installedPackages[j].Description, "  ")
                      /\ installedPackages[j].Upgrade = NilUpgrade
            /\ \A j \in 1..Len(installedPackages) :
                  installedPackages[j]
                      \in {Info("a", "1.0", "all", "pkg a", NilUpgrade),
                           Info("b:amd64", "2.0", "amd64", "the b pkg", NilUpgrade)}

\* C16, witness: a listing of a header line, an installed package and a
\* line with too few fields gave one record
C16_Witness ==
    /\ Ended("GetInstalledPackages", "ok")
    /\ commandOutputs["dpkg -l"]
          = <<"||/ Name Version Architecture Description\nii  b:amd64   2.0  amd64  the   b  pkg\nii  e 1.0 all\n">>
    /\ installedPackages = <<Info("b:amd64", "2.0", "amd64", "the b pkg", NilUpgrade)>>

\* lines of `apt list --upgradable`
AptLines ==
    {"Listing... Done",
     "a/jammy 1.1 all [upgradable from: 1.0]",
     "a:amd64/jammy-updates 1.2 amd64 [upgradable from: 1.0]",
     "a/jammy 1.3 all [upgradable from: 1.0]",
     "b:i386/jammy 2.1 i386 [upgradable from: 2.0]",
     "libperl5.34:arm64/jammy 5.34.0-3ubuntu1.4 arm64 [upgradable from: 5.34.0-3ubuntu1.3]",
     "N: There are 2 additional versions.",
     ""}

InitUpgradable == AtStart("GetUpgradablePackages")

NextUpgradable == GetUpgradableStep(Listings(AptLines))

SpecUpgradable == InitUpgradable /\ [][NextUpgradable]_vars

\* s up to its first occurrence of sep, s when it has none
Before(s, sep) == IF Index(s, sep) = 0 THEN s ELSE SubSeq(s, 1, Index(s, sep) - 1)

\* the lines of the listing that `apt list --upgradable` printed
ListedLines == Split(commandOutputs["apt list --upgradable"][1], "\n")

\* the lines that announce an upgrade
Upgradable(lines) == {k \in 1..Len(lines) : Contains(lines[k], "[upgradable from:")}

\* the package that the line names: its first field without /repo and
\* without :arch
PackageOf(line) == Before(Before(Fields(line)[1], "/"), ":")

(***************************************************************************)
(* The claims about parseUpgradablePackages, specification SpecUpgradable. *)
(***************************************************************************)

\* C17: for every line of an upgradable listing whose first field is
\* pkg:arch/repo, the new version, which is the second field, is stored
\* under the key pkg and never under pkg:arch; no key of the map contains
\* ":" or "/".
C17_ArchQualifiedKey ==
    Ended("GetUpgradablePackages", "ok") =>
        /\ \A k \in Upgradable(ListedLines) :
              LET name == Before(Fields(ListedLines[k])[1], "/")
              IN  Contains(name, ":") =>
                     /\ Before(name, ":") \in DOMAIN upgradableMap
                     /\ name \notin DOMAIN upgradableMap
                     /\ (\A j \in Upgradable(ListedLines) :
                            j > k => PackageOf(ListedLines[j]) # Before(name, ":"))
                        => upgradableMap[Before(name, ":")] = Fields(ListedLines[k])[2]
        /\ \A key \in DOMAIN upgradableMap :
              ~Contains(key, ":") /\ ~Contains(key, "/")

\* C17, witness: the listing of the test, libperl5.34:arm64
C17_Witness ==
    /\ Ended("GetUpgradablePackages", "ok")
    /\ Len(ListedLines) = 3
    /\ HasPrefix(ListedLines[2], "libperl5.34:arm64/jammy")
    /\ upgradableMap = [k \in {"libperl5.34"} |-> "5.34.0-3ubuntu1.4"]

\* C18: when a package name occurs on several lines of an upgradable
\* listing, qualified by an architecture or not, the map has one entry for
\* it, with the version of the last of these lines; the keys of the map are
\* the names that the lines give.
C18_LastLineWins ==
    Ended("GetUpgradablePackages", "ok") =>
        /\ DOMAIN upgradableMap
              = {PackageOf(ListedLines[k]) : k \in Upgradable(ListedLines)}
        /\ \A k \in Upgradable(ListedLines) :
              (\A j \in Upgradable(ListedLines) :
                  j > k => PackageOf(ListedLines[j]) # PackageOf(ListedLines[k]))
              => upgradableMap[PackageOf(ListedLines[k])] = Fields(ListedLines[k])[2]

\* C18, witness: a 1.3, then a:amd64 1.2, then a 1.1 gave a -> 1.1
C18_Witness ==
    /\ Ended("GetUpgradablePackages", "ok")
    /\ ListedLines = <<"a/jammy 1.3 all [upgradable from: 1.0]",
                       "a:amd64/jammy-updates 1.2 amd64 [upgradable from: 1.0]",
                       "a/jammy 1.1 all [upgradable from: 1.0]",
                       "">>
    /\ upgradableMap = [k \in {"a"} |-> "1.1"]

(***************************************************************************)
(* The claims about the listings and the files of a run, specifications    *)
(* Spec and SpecRuns.                                                      *)
(***************************************************************************)

\* the files of the snapshot of today
Snapshot == files[SnapshotID(today)]

\* C19: a failure of `apt list --upgradable` is not an error.  The map is
\* empty and the run goes on as one without upgrades: nothing is enriched,
\* no request goes to the oracle, the updates snapshot that is written is
\* the empty list, no upgrade command runs, and the run exits with 0 unless
\* a write of a file fails afterwards.  A failure of `dpkg -l` ends the run
\* with status 1 before a file is written.
C19_ListingFailures ==
    /\ Ended("GetUpgradablePackages", "command_error") =>
          /\ upgradableMap = EmptyMap
          /\ trace[Len(trace)].stage = "GetUpgradablePackages"
                => pc = "EnrichWithUpgradeInfo" /\ exitCode = -1
          /\ upgradablePackages = <<>> /\ scoredPackages = <<>>
          /\ oracleRequests = <<>> /\ aptCalls = <<>>
          /\ Ended("WriteSnapshot(updates)", "ok")
                => Snapshot.updates = Holding(<<>>, upgradeHeap)
          /\ \A i \in 1..Len(trace) :
                trace[i].result \in {"error", "panic"} =>
                    trace[i].stage \in {"WriteSnapshot(updates)", "WriteSummaryIfMissing"}
          /\ pc = "exited" =>
                exitCode = IF LastCall.stage = "Notify" THEN 0 ELSE 1
    /\ Ended("GetInstalledPackages", "error") =>
          /\ LastCall = Call("GetInstalledPackages", "error")
          /\ pc = "exited" /\ exitCode = 1
          /\ Snapshot = NoFiles

\* C19, witness: the listing of the upgrades failed on a host with two
\* installed packages, and the run came to its end with status 0
C19_Witness ==
    /\ Ended("GetUpgradablePackages", "command_error")
    /\ Len(installedPackages) = 2
    /\ Snapshot.updates = Holding(<<>>, upgradeHeap)
    /\ Len(Snapshot.summary) = 1
    /\ LastCall.stage = "Notify"
    /\ pc = "exited" /\ exitCode = 0

\* C20: after a run in which every stage succeeded, and after every run
\* that exits with status 0, the snapshot directory of the day exists and
\* holds installed.json, updates.json and summary.txt, the two snapshots
\* written in full.
C20_ThreeFiles ==
    (pc = "exited" /\ exitCode = 0) =>
        /\ SnapshotID(today) \in dirs
        /\ Len(Snapshot.installed) = 1 /\ Snapshot.installed[1].complete
        /\ Len(Snapshot.updates) = 1 /\ Snapshot.updates[1].complete
        /\ Len(Snapshot.summary) = 1

\* C20, witness: the first run of the second day, every call of which
\* succeeded, with two scored packages
C20_Witness ==
    /\ pc = "exited" /\ exitCode = 0
    /\ today = 2
    /\ Len(trace) = Len(StageOrder)
    /\ \A i \in 1..Len(trace) : trace[i] = Call(StageOrder[i], "ok")
    /\ Len(scoredPackages) = 2
    /\ Len(Snapshot.updates[1].data) = 2

(***************************************************************************)
(* The claims about the order of the stages of a run, specification Spec.  *)
(***************************************************************************)

Processes == {1, 2}

\* the lists that a process has scored
ProcessLists ==
    UNION {{PackageList(names, [i \in 1..n |-> TRUE]) : names \in [1..n -> {"a", "b"}]} :
           n \in 0..2}

InitConcurrent ==
    /\ pc = "WriteUpdates"
    /\ run = 1
    /\ today = 1
    /\ env = [k \in {"OPENAI_API_KEY"} |-> TRUE]
    /\ dirs = {SnapshotID(1)}
    /\ files = [id \in SnapshotIDs |-> NoFiles]
    /\ installedPackages = <<>>
    /\ upgradableMap = EmptyMap
    /\ upgradablePackages = <<>>
    /\ scoredPackages = <<>>
    /\ upgradeHeap = HeapOf(<<"a", "b">>, <<"low", "high">>)
    /\ results = <<>>
    /\ oracleRequests = <<>>
    /\ aptCalls = <<>>
    /\ sent = <<>>
    /\ summaryPath = ""
    /\ readResult = NoRead
    /\ commandOutputs = EmptyObject
    /\ trace = <<>>
    /\ exitCode = -1
    /\ \E lists \in [Processes -> ProcessLists] :
          procs = [p \in Processes |->
                      [pc |-> "WriteUpdates", packages |-> lists[p]]]

\* the position of process p becomes next, and the call is recorded
Proceed(p, call, result, next) ==
    /\ procs' = [procs EXCEPT ![p].pc = next]
    /\ trace' = Append(trace, Call(FormatInt(p) \o ":" \o call, result))

\* the bytes of a file that held content, after text is written at offset 0
Overlay(content, text) ==
    IF Len(text) >= Len(content) THEN text
    ELSE text \o SubSeq(content, Len(text) + 1, Len(content))

\* storage.go 66-82: MkdirAll, then os.Create, which truncates the file
ProcCreateUpdates(p) ==
    /\ procs[p].pc = "WriteUpdates"
    /\ dirs' = dirs \cup {SnapshotID(today)}
    /\ files' = [files EXCEPT ![SnapshotID(today)].updates =
                    <<[complete |-> FALSE, data |-> <<>>]>>]
    /\ Proceed(p, "os.Create(updates.json)", "ok", "Encode")

\* storage.go 84-90: the one write of the encoder
ProcEncodeUpdates(p) ==
    /\ procs[p].pc = "Encode"
    /\ files' = [files EXCEPT ![SnapshotID(today)].updates =
                    <<[complete |-> TRUE,
                       data |-> Encode(procs[p].packages, upgradeHeap)]>>]
    /\ dirs' = dirs
    /\ Proceed(p, "Encode(updates.json)", "ok", "WriteSummaryIfMissing")

\* ProcStatSummary without the test of lines 116-118
ProcStatSummary_NoCheck(p) ==
    /\ procs[p].pc = "WriteSummaryIfMissing"
    /\ Proceed(p, "os.Stat(summary.txt)",
               IF files[SnapshotID(today)].summary # <<>> THEN "exists" ELSE "absent",
               "os.Create")
    /\ UNCHANGED fsVars

\* storage.go 113-118: the file exists and the call returns, or it does not
ProcStatSummary(p) ==
    /\ procs[p].pc = "WriteSummaryIfMissing"
    /\ IF files[SnapshotID(today)].summary # <<>>
       THEN Proceed(p, "os.Stat(summary.txt)", "exists", "UpdatePackages")
       ELSE Proceed(p, "os.Stat(summary.txt)", "absent", "os.Create")
    /\ UNCHANGED fsVars

\* storage.go 120-124: os.Create, which truncates the file
ProcCreateSummary(p) ==
    /\ procs[p].pc = "os.Create"
    /\ files' = [files EXCEPT ![SnapshotID(today)].summary = <<"">>]
    /\ dirs' = dirs
    /\ Proceed(p, "os.Create(summary.txt)", "ok", "Fprintf")

\* storage.go 126-173: the report, at the second p of the clock
ProcWriteSummary(p) ==
    /\ procs[p].pc = "Fprintf"
    /\ files' = [files EXCEPT ![SnapshotID(today)].summary =
                    <<Overlay(files[SnapshotID(today)].summary[1],
                              SummaryText(procs[p].packages, upgradeHeap,
                                          RFC1123(today, p)))>>]
    /\ dirs' = dirs
    /\ Proceed(p, "Fprintf(summary.txt)", "ok", "UpdatePackages")

NextConcurrent ==
    /\ \E p \in Processes :
          \/ ProcCreateUpdates(p)
          \/ ProcEncodeUpdates(p)
          \/ ProcStatSummary(p)
          \/ ProcCreateSummary(p)
          \/ ProcWriteSummary(p)
    /\ UNCHANGED <<pc, run, today, env, dataVars, ioVars, summaryPath, readResult,
                   commandOutputs, exitCode>>

SpecConcurrent == InitConcurrent /\ [][NextConcurrent]_vars

\* the place in the trace of the call of process p, 0 when it is not made
CallIndex(p, call) ==
    IF \E i \in 1..Len(trace) : trace[i].stage = FormatInt(p) \o ":" \o call
    THEN CHOOSE i \in 1..Len(trace) : trace[i].stage = FormatInt(p) \o ":" \o call
    ELSE 0

\* the report of process p
ReportOf(p) == SummaryText(procs[p].packages, upgradeHeap, RFC1123(today, p))

(***************************************************************************)
(* The claim about concurrent runs, specification SpecConcurrent.          *)
(***************************************************************************)

\* C23: the writes of a snapshot are not guarded against another process.
\* Two processes of the same snapshot id may both find summary.txt absent
\* and both write it, and both write updates.json, the file holding what
\* the later write left.  A process writes summary.txt only when its check
\* found no file; a process whose check comes after the other process
\* created the file writes nothing, which is the write-once guarantee of
\* runs that do not overlap; and when both processes have written their
\* updates.json, the file holds the list of the process that wrote last.
C23_UnguardedWrites ==
    \A p \in Processes : \A q \in Processes \ {p} :
        /\ CallIndex(p, "os.Create(summary.txt)") > 0
              => Ended(FormatInt(p) \o ":os.Stat(summary.txt)", "absent")
        /\ (CallIndex(p, "os.Create(summary.txt)") > 0
              /\ CallIndex(q, "os.Stat(summary.txt)")
                    > CallIndex(p, "os.Create(summary.txt)"))
              => /\ Ended(FormatInt(q) \o ":os.Stat(summary.txt)", "exists")
                 /\ CallIndex(q, "os.Create(summary.txt)") = 0
        /\ (CallIndex(p, "Encode(updates.json)")
              > CallIndex(q, "Encode(updates.json)")
              /\ CallIndex(q, "Encode(updates.json)") > 0)
              => files[SnapshotID(today)].updates
                    = Holding(procs[p].packages, upgradeHeap)

\* C23, witness: both processes found summary.txt absent and both wrote
\* it, process 2 over the report of process 1, which was longer: the file
\* is the report of neither.  Both wrote updates.json, with different lists.
C23_Witness ==
    /\ \A p \in Processes : procs[p].pc = "UpdatePackages"
    /\ \A p \in Processes : CallIndex(p, "Fprintf(summary.txt)") > 0
    /\ CallIndex(2, "Fprintf(summary.txt)") > CallIndex(1, "Fprintf(summary.txt)")
    /\ files[SnapshotID(today)].summary # <<ReportOf(1)>>
    /\ files[SnapshotID(today)].summary # <<ReportOf(2)>>
    /\ procs[1].packages # procs[2].packages
    /\ files[SnapshotID(today)].updates = Holding(procs[1].packages, upgradeHeap)

(***************************************************************************)
(* The claims about the scores of a run, specification Spec.               *)
(***************************************************************************)

\* the risk levels that the specification names
NamedRiskLevels == {"", "low", "medium", "high"}

\* the upgrade records of the updates snapshot of today, as the file has them
PersistedUpgrades ==
    IF Snapshot.updates = <<>> THEN {}
    ELSE {Snapshot.updates[1].data[i].upgrade :
             i \in {j \in 1..Len(Snapshot.updates[1].data) :
                       "upgrade" \in DOMAIN Snapshot.updates[1].data[j]}}

\* C24: in every state the risk_level of every upgrade record, in memory
\* and in the updates snapshot, is one of "", "low", "medium", "high", and
\* it is not empty only when ScorePackageRisks took it from an entry of the
\* oracle's response.
C24_RiskLevelDomain ==
    /\ \A a \in 1..Len(upgradeHeap) :
          /\ upgradeHeap[a].RiskLevel \in NamedRiskLevels
          /\ upgradeHeap[a].RiskLevel # "" =>
                /\ Ended("ScorePackageRisks", "ok")
                /\ \E k \in 1..Len(results) :
                      results[k].RiskLevel = upgradeHeap[a].RiskLevel
    /\ \A u \in PersistedUpgrades :
          "risk_level" \in DOMAIN u =>
              /\ u.risk_level \in NamedRiskLevels
              /\ \E k \in 1..Len(results) : results[k].RiskLevel = u.risk_level

(***************************************************************************)
(* GetChangelog applied to any text of at most MaxLines lines and to any   *)
(* stop version, the empty one included: main taken at the call of         *)
(* EnrichWithUpgradeInfo, whose list holds one package p.                  *)
(***************************************************************************)
\* lines of `apt changelog p`
ChangelogPool ==
    {"p (1.1) u; urgency=medium",
     "p (1.0) u; urgency=low",
     "  * fix CVE-1, CVE-2. CVE-1",
     "  * CVE-3: was urgency=low now urgency=high",
     " -- D  Mon",
     ""}

\* the version of p that is installed, which is the stop version
StopVersions == {"", "1.0", "CVE-1", "9.9"}

InitGetChangelog ==
    /\ pc = "EnrichWithUpgradeInfo"
    /\ run = 1
    /\ today = 1
    /\ env = [k \in {"OPENAI_API_KEY"} |-> TRUE]
    /\ dirs = {SnapshotID(1)}
    /\ files = [id \in SnapshotIDs |-> NoFiles]
    /\ \E stopVersion \in StopVersions :
          installedPackages = <<Info("p", stopVersion, "all", "pkg", NilUpgrade)>>
    /\ upgradableMap = [k \in {"p"} |-> "1.1"]
    /\ upgradablePackages = <<>>
    /\ scoredPackages = <<>>
    /\ upgradeHeap = <<>>
    /\ results = <<>>
    /\ oracleRequests = <<>>
    /\ aptCalls = <<>>
    /\ sent = <<>>
    /\ summaryPath = ""
    /\ readResult = NoRead
    /\ procs = <<>>
    /\ commandOutputs = EmptyObject
    /\ trace = <<>>
    /\ exitCode = -1

NextGetChangelog == EnrichStep({<<>>} \cup {<<out>> : out \in Listings(ChangelogPool)})

SpecGetChangelog == InitGetChangelog /\ [][NextGetChangelog]_vars

\* the lines that `apt changelog p` printed
PrintedLines == Split(commandOutputs["apt changelog p"][1], "\n")

\* the lines before the first line that contains the stop version
ScannedLines ==
    LET stops == {k \in 1..Len(PrintedLines) :
                     Contains(PrintedLines[k], installedPackages[1].Version)}
    IN  IF stops = {} THEN PrintedLines
        ELSE SubSeq(PrintedLines, 1,
                    (CHOOSE k \in stops : \A j \in stops : k <= j) - 1)

\* the record that GetChangelog returned for p
Changelog == upgradeHeap[1].Changelog[1]

RECURSIVE Terminated(_)
\* the lines, each followed by a newline
Terminated(lines) ==
    IF Len(lines) = 0 THEN "" ELSE Head(lines) \o "\n" \o Terminated(Tail(lines))

(***************************************************************************)
(* The claims about the scan of GetChangelog, specification                *)
(* SpecGetChangelog.                                                       *)
(***************************************************************************)

\* C25: GetChangelog scans the lines in order and stops at the first line
\* that contains stopVersion as a substring.  raw is the lines before that
\* line, all the lines when there is none, each followed by a newline; the
\* stop line and the lines after it give nothing to raw, urgency, cves,
\* author or date: the record is the one that the scanned lines alone give,
\* and a field is set only when a scanned line sets it; with an empty
\* stopVersion the scan stops at the first line and every field is empty.
C25_StopsAtFirstMatch ==
    ChangelogFetched =>
        /\ Changelog.Raw = Terminated(ScannedLines)
        /\ Changelog = ChangelogLoop(ScannedLines, 0, "\n",
                                     ChangelogInfo("", "", <<>>, "", "", ""))
        /\ Changelog.Urgency # "" =>
              \E k \in 1..Len(ScannedLines) : Contains(ScannedLines[k], "urgency=")
        /\ \A c \in 1..Len(Changelog.CVEs) :
              \E k \in 1..Len(ScannedLines) : Contains(ScannedLines[k], Changelog.CVEs[c])
        /\ (Changelog.Author # "" \/ Changelog.Date # "") =>
              \E k \in 1..Len(ScannedLines) :
                  ScannedLines[k] = " -- " \o Changelog.Author \o "  " \o Changelog.Date
        /\ installedPackages[1].Version = "" =>
              Changelog = ChangelogInfo("", "", <<>>, "", "", "")

\* C25, witness: the scan stopped at the second line, the header of 1.0,
\* which names an urgency, before a footer
C25_Witness ==
    /\ ChangelogFetched
    /\ installedPackages[1].Version = "1.0"
    /\ PrintedLines = <<"p (1.1) u; urgency=medium", "p (1.0) u; urgency=low",
                        " -- D  Mon", "">>
    /\ Changelog = ChangelogInfo("", "medium", <<>>, "", "",
                                 "p (1.1) u; urgency=medium\n")

\* the scanned lines that hold the marker urgency=
WithUrgency == {k \in 1..Len(ScannedLines) : Contains(ScannedLines[k], "urgency=")}

\* the token that begins text, up to the next whitespace
FirstToken(text) ==
    IF text = "" \/ Char(text, 1) \in Whitespace THEN "" ELSE Fields(text)[1]

\* the token that follows the last marker urgency= of line
AfterLastMarker(line) ==
    LET parts == Split(line, "urgency=") IN FirstToken(parts[Len(parts)])

IsCVE(word) == HasPrefix(word, "CVE-")

\* word without the "." and "," that end it
WithoutTrailing(word) == SubSeq(word, 1, LastOutside(word, {".", ","}))

RECURSIVE CVETokens(_)
\* the tokens of lines that begin with CVE-, in their order
CVETokens(lines) ==
    IF Len(lines) = 0 THEN <<>>
    ELSE LET tokens == SelectSeq(Fields(Head(lines)), IsCVE)
         IN  [k \in 1..Len(tokens) |-> WithoutTrailing(tokens[k])]
             \o CVETokens(Tail(lines))

AfterFirstMarker(line) == Before(Split(line, "urgency=")[2], " ")

RiskFields(packages, heap) ==
    [i \in 1..Len(packages) |->
        IF packages[i].Upgrade = NilUpgrade THEN <<>>
        ELSE <<heap[packages[i].Upgrade].RiskLevel,
               heap[packages[i].Upgrade].RiskReason>>]

\* C27: ScorePackageRisks does not modify its input.  After the call every
\* package of the list passed in, and of the installed collection whose
\* records it shares, has the risk_level and the risk_reason that it had
\* before the call.
C27_InputNotModified ==
    [][pc = "ScorePackageRisks" =>
          /\ upgradablePackages' = upgradablePackages
          /\ RiskFields(upgradablePackages', upgradeHeap')
                = RiskFields(upgradablePackages, upgradeHeap)
          /\ RiskFields(installedPackages', upgradeHeap')
                = RiskFields(installedPackages, upgradeHeap)]_vars

\* the request names the package: it holds the block of its update
Names(request, pkg) ==
    Contains(request, "Package: " \o pkg.Name \o "\nUpdate: " \o pkg.Version \o " -> ")

\* C28: a run sends at most one request to the oracle.  Once
\* ScorePackageRisks is called, there is exactly one request when the
\* upgradable list is not empty, and it names, in one batch, every package
\* of the list that carries a changelog and no other package; there is no
\* request when the list is empty, and the call then succeeds with an empty
\* result.
C28_OneBatchedRequest ==
    /\ Len(oracleRequests) <= 1
    /\ ~Called("ScorePackageRisks") => oracleRequests = <<>>
    /\ Called("ScorePackageRisks") =>
          IF upgradablePackages = <<>>
          THEN /\ oracleRequests = <<>>
               /\ Ended("ScorePackageRisks", "ok")
               /\ scoredPackages = <<>> /\ results = <<>>
          ELSE /\ Len(oracleRequests) = 1
               /\ \A i \in 1..Len(upgradablePackages) :
                     Names(oracleRequests[1], upgradablePackages[i])
                         <=> Len(upgradeHeap[upgradablePackages[i].Upgrade].Changelog) = 1

\* C28, witness: one request for a list of two packages, the changelog of
\* one of which could not be fetched, answered by the oracle
C28_Witness ==
    /\ Ended("ScorePackageRisks", "ok")
    /\ Len(oracleRequests) = 1
    /\ Len(upgradablePackages) = 2
    /\ Names(oracleRequests[1], upgradablePackages[1])
    /\ ~Names(oracleRequests[1], upgradablePackages[2])

\* C29: every package of the list that main passes to UpdatePackages
\* carries an upgrade record, so that the read of Upgrade.RiskLevel of line
\* 180 never goes through a nil pointer in a run, for every installed
\* listing, upgradable listing and response of the oracle: no run ends in
\* the panic.
C29_UpgradeNeverNil ==
    /\ (pc = "UpdatePackages" \/ Called("UpdatePackages")) =>
          \A i \in 1..Len(scoredPackages) :
              /\ scoredPackages[i].Upgrade # NilUpgrade
              /\ scoredPackages[i].Upgrade \in 1..Len(upgradeHeap)
    /\ ~Ended("UpdatePackages", "panic")
    /\ exitCode # 2

\* C29, witness: UpdatePackages returned for a list of one package, while
\* the installed list holds a package without upgrade record as well
C29_Witness ==
    /\ Ended("UpdatePackages", "ok")
    /\ Len(scoredPackages) = 1
    /\ Len(installedPackages) = 2
    /\ \E i \in 1..2 : installedPackages[i].Upgrade = NilUpgrade

\* C30: in a run that writes the summary anew, the summary and
\* UpdatePackages agree on the low risk: the number of the packages that
\* the upgrade command names is the "Low risk updates" count of the
\* summary, and the high, medium and low counts add up to the total exactly
\* when the response of the oracle named every upgradable package, for
\* every response, those whose risk_level differs in letter case included.
C30_SummaryAgreesWithApply ==
    (Ended("WriteSummaryIfMissing", "ok") /\ Called("UpdatePackages")) =>
        LET lines == Split(Snapshot.summary[1], "\n")
            named == IF aptCalls = <<>> THEN 0 ELSE Len(aptCalls[1]) - 4
            counts == 0..Len(scoredPackages)
        IN  /\ Reported(lines, "Low risk updates: ") = {FormatInt(named)}
            /\ \E total \in counts, high \in counts, medium \in counts, low \in counts :
                  /\ Reported(lines, "Total packages available for update: ")
                        = {FormatInt(total)}
                  /\ Reported(lines, "High risk updates: ") = {FormatInt(high)}
                  /\ Reported(lines, "Medium risk updates: ") = {FormatInt(medium)}
                  /\ Reported(lines, "Low risk updates: ") = {FormatInt(low)}
                  /\ high + medium + low = total
                        <=> \A i \in 1..Len(scoredPackages) :
                                scoredPackages[i].Name \in ResultNames

====
